---- MODULE Spec2Model ----
(***************************************************************************)
(* Model of the plant-recognition curation pipeline of src/src/pipeline.py *)
(* and src/src/stages/*.py: detection records are grouped into tracks and  *)
(* gated (stage2_filtering), one representative crop is selected per track *)
(* (stage3_intra_track), cross-track duplicates are collapsed              *)
(* (stage4_similarity), the quality gate is applied (stage5_quality) and   *)
(* the remaining crops are submitted to the judge (stage6_validation).     *)
(*                                                                         *)
(* Units.  Confidences, learned quality scores and cosine similarities are *)
(* integers in percent (0.85 is 85).  Time is counted in frames at the     *)
(* 30 fps that stage 1 assumes (timestamp = frame / 30.0), so a duration   *)
(* of 1.0 s is 30.  Quotients the code computes in floating point (mean    *)
(* IoU, variance, composite score) are exact rationals <<n, d>>; the       *)
(* standard deviation is kept as its square.  Rounding of the floating     *)
(* point operations is not modelled.                                       *)
(***************************************************************************)
EXTENDS Integers, Sequences, FiniteSets, TLC

VARIABLES
    pc,                  \* position of the run: which stage is to run next
    cfg,                 \* the configuration dictionary handed to the stages
    detections,          \* stage 1: detection_results['frames'], flattened
    cropped_images,      \* stage 1: crop_results['cropped_images']
    track_stats,         \* stage 2: TrackingIDFilterStage.track_stats
    valid_tracks,        \* stage 2: results['valid_tracks']
    filtered_crops,      \* stage 2: filtered_crop_results['filtered_crops']
    selected_crops,      \* stage 3: results['selected_crops']
    track_selection_info,\* stage 3: results['track_selection_info']
    similarity_matrix,   \* stage 4: cosine_similarity(embeddings)
    similar_groups,      \* stage 4: results['similar_groups'] (group_info)
    unique_crops,        \* stage 4: results['unique_crops']
    quality_assessments, \* stage 5: results['quality_assessments']
    high_quality_crops,  \* stage 5: results['high_quality_crops']
    validation_results,  \* stage 6: results['validation_results']
    validated_crops,     \* stage 6: results['validated_crops']
    plant_identifications, \* stage 6: results['plant_identifications']
    summary,             \* stage 6: results['summary'], if the run has one
    judge,               \* what the judge did with the requests of the run
    api_stats,           \* stage 6: self.api_stats
    completed,           \* stage 6: the progress counter of _process_parallel
    workers,             \* stage 6: the threads of the pool
    previous_run,        \* the configuration and results of an earlier run
                         \* of a stage on the same input, if there was one
    pipelines,           \* the PlantRecognitionPipeline objects: where each
                         \* is in process_video, its current_run_id, its
                         \* pipeline_results and the counters of its stages
    clock,               \* time.time(), in whole seconds
    stage_calls,         \* the calls of a stage's process made in the
                         \* latest call of process_video
    disk,                \* the files written under the output roots
    runs,                \* the calls of process_video made so far and how
                         \* each ended for its caller; its pipeline holds
                         \* the pipeline_results of the latest
    config,              \* the settings held by the Config object
    stages,              \* self.stages: the settings the stage objects
                         \* were built from
    updates,             \* the calls of update_configuration made so far
    dirs,                \* main.py: the files in the output directories
    steps,               \* main.py: the steps process_video_pipeline ran
    failure              \* main.py: the exception it raised, if it did

vars == <<pc, cfg, detections, cropped_images, track_stats, valid_tracks,
          filtered_crops, selected_crops, track_selection_info,
          similarity_matrix, similar_groups, unique_crops,
          quality_assessments, high_quality_crops, validation_results,
          validated_crops, plant_identifications, summary, judge, api_stats,
          completed, workers, previous_run, pipelines, clock, stage_calls,
          disk, runs, config, stages, updates, dirs, steps, failure>>

stage1_vars == <<detections, cropped_images>>
stage2_vars == <<track_stats, valid_tracks, filtered_crops>>
stage3_vars == <<selected_crops, track_selection_info>>
stage4_vars == <<similarity_matrix, similar_groups, unique_crops>>
stage5_vars == <<quality_assessments, high_quality_crops>>
stage6_vars == <<validation_results, validated_crops, plant_identifications,
                 summary,
                 judge, api_stats, completed, workers>>
orchestrator_vars == <<pipelines, clock, stage_calls, disk, runs>>
config_vars == <<config, stages, updates>>
frame_vars == <<dirs, steps, failure>>
run_vars == <<previous_run, orchestrator_vars, config_vars, frame_vars>>

(***************************************************************************)
(* Bounds of the model.                                                    *)
(***************************************************************************)
MaxDet == 3          \* detections of a run in the gate specification
MaxPipeDet == 3      \* detections of a run in the pipeline specification

None == 0            \* a null track_id (the tracker numbers tracks from 1)

(***************************************************************************)
(* Exact rational arithmetic for the quotients the code computes.          *)
(***************************************************************************)
RECURSIVE Gcd(_, _)
Gcd(a, b) == IF b = 0 THEN a ELSE Gcd(b, a % b)

Abs(x) == IF x < 0 THEN -x ELSE x

Rat(n, d) ==
    LET g == Gcd(Abs(n), d)
    IN  IF n = 0 THEN <<0, 1>> ELSE <<n \div g, d \div g>>

RAdd(p, q) == Rat(p[1] * q[2] + q[1] * p[2], p[2] * q[2])
RLt(p, q) == p[1] * q[2] < q[1] * p[2]
RLeq(p, q) == p[1] * q[2] <= q[1] * p[2]
RGeq(p, q) == RLeq(q, p)
RMin(p, q) == IF RLeq(p, q) THEN p ELSE q
RDivInt(p, k) == Rat(p[1], p[2] * k)
RInt(k) == <<k, 1>>

Max(a, b) == IF a >= b THEN a ELSE b
Min(a, b) == IF a <= b THEN a ELSE b

RECURSIVE SeqSum(_)
SeqSum(s) == IF s = <<>> THEN 0 ELSE Head(s) + SeqSum(Tail(s))

RECURSIVE RSeqSum(_)
RSeqSum(s) == IF s = <<>> THEN <<0, 1>> ELSE RAdd(Head(s), RSeqSum(Tail(s)))

SeqMax(s) == CHOOSE m \in {s[i] : i \in DOMAIN s} :
                 \A i \in DOMAIN s : s[i] <= m
SeqMin(s) == CHOOSE m \in {s[i] : i \in DOMAIN s} :
                 \A i \in DOMAIN s : m <= s[i]


(***************************************************************************)
(* Configuration: the defaults each stage reads in its constructor, and    *)
(* the configuration of the integration test.                              *)
(***************************************************************************)
FilteringDefaults ==
    [min_detections_per_track |-> 3,
     min_track_duration       |-> 30,          \* 1.0 s
     min_confidence_avg       |-> 30,          \* 0.3
     max_confidence_std       |-> 30,          \* 0.3
     min_bbox_consistency     |-> <<7, 10>>]   \* 0.7

SelectionDefaults ==
    [quality_weight    |-> 40,                 \* 0.4
     confidence_weight |-> 30,                 \* 0.3
     area_weight       |-> 20,                 \* 0.2
     centrality_weight |-> 10]                 \* 0.1

SimilarityDefaults ==
    [threshold                   |-> 85,          \* 0.85
     use_spatial_constraint      |-> TRUE,
     spatial_distance_threshold  |-> <<3, 10>>,   \* 0.3
     temporal_distance_threshold |-> 30]          \* frames

QualityDefaults ==
    [min_quality_score       |-> 30,           \* 0.3
     min_resolution          |-> <<100, 100>>, \* [width, height]
     max_blur_variance       |-> 50,
     min_brightness          |-> 20,
     max_brightness          |-> 235,
     min_contrast_std        |-> 15,
     enable_clip_quality     |-> TRUE,
     enable_blur_detection   |-> TRUE,
     enable_brightness_check |-> TRUE,
     enable_contrast_check   |-> TRUE,
     enable_resolution_check |-> TRUE]

ValidationDefaults ==
    [api_endpoint         |-> FALSE,   \* '': no endpoint is configured
     retry_attempts       |-> 3,
     min_validation_score |-> 40,
     enable_parallel      |-> TRUE,
     max_workers          |-> 22,
     enable_plant_identification |-> TRUE]

DefaultConfig ==
    FilteringDefaults @@ SelectionDefaults @@ SimilarityDefaults
        @@ QualityDefaults @@ ValidationDefaults

\* tests/integration/test_pipeline.py: two detections and half a second
\* admit a track, the learned quality check is off, the judge wants 70
TestConfig ==
    [DefaultConfig EXCEPT !.min_detections_per_track = 2,
                          !.min_track_duration = 15,
                          !.enable_clip_quality = FALSE,
                          !.min_validation_score = 70]

(***************************************************************************)
(* Stage 1 (external tracker and cropper).  A detection that passed the    *)
(* stage-1 filter is appended to its frame's objects, and crop_detections  *)
(* writes the crop and appends its record.  The image file the crop        *)
(* record points to is part of the record here: it may be missing          *)
(* (cv2.imwrite failed), present but not decodable, or a decodable image   *)
(* with its measurable properties.                                         *)
(***************************************************************************)
BoxA == <<0, 0, 100, 100>>
BoxB == <<10, 0, 110, 100>>         \* overlaps BoxA, IoU 9/11
BoxC == <<1000, 500, 1100, 600>>    \* far from both

Image(q, blur, bright, contrast, w, h) ==
    [exists |-> TRUE, decodes |-> TRUE, quality |-> q, blur |-> blur,
     brightness |-> bright, contrast |-> contrast, width |-> w, height |-> h]

GoodImage == Image(80, 120, 128, 40, 100, 100)
BetterImage == Image(90, 120, 128, 40, 100, 100)
BlurryImage == Image(90, 10, 128, 40, 100, 100)
MissingFile == [GoodImage EXCEPT !.exists = FALSE, !.decodes = FALSE]
CorruptFile == [GoodImage EXCEPT !.decodes = FALSE]

LastFrame == IF detections = <<>> THEN 0
             ELSE detections[Len(detections)].frame

DetectObject(max, gap, t, c, b, im) ==
    /\ pc = "detection"
    /\ Len(detections) < max
    /\ LET frame_number == LastFrame + gap
           idx == Len(detections) + 1
       IN  /\ detections' = Append(detections,
                  [frame |-> frame_number, track_id |-> t,
                   confidence |-> c, bbox |-> b])
           /\ cropped_images' = Append(cropped_images,
                  [filename |-> idx, track_id |-> t, frame |-> frame_number,
                   bbox |-> b, confidence |-> c, img |-> im])
    /\ UNCHANGED <<pc, cfg, stage2_vars, stage3_vars, stage4_vars,
                   stage5_vars, stage6_vars,
                   run_vars>>

(***************************************************************************)
(* Stage 2: TrackingIDFilterStage.                                         *)
(***************************************************************************)
CalculateIou(bbox1, bbox2) ==
    LET x1_i == Max(bbox1[1], bbox2[1])
        y1_i == Max(bbox1[2], bbox2[2])
        x2_i == Min(bbox1[3], bbox2[3])
        y2_i == Min(bbox1[4], bbox2[4])
        intersection == (x2_i - x1_i) * (y2_i - y1_i)
        area1 == (bbox1[3] - bbox1[1]) * (bbox1[4] - bbox1[2])
        area2 == (bbox2[3] - bbox2[1]) * (bbox2[4] - bbox2[2])
        union == area1 + area2 - intersection
    IN  IF x2_i <= x1_i \/ y2_i <= y1_i THEN <<0, 1>>
        ELSE IF union = 0 THEN <<0, 1>>
        ELSE Rat(intersection, union)

\* mean IoU of consecutive detections, in the order of the list
CalculateBboxConsistency(dets) ==
    IF Len(dets) <= 1 THEN <<1, 1>>
    ELSE LET ious == [i \in 1..(Len(dets) - 1) |->
                         CalculateIou(dets[i].bbox, dets[i + 1].bbox)]
         IN  RDivInt(RSeqSum(ious), Len(ious))

\* the variance sum((x - mean)^2) / n, whose square root is the deviation
CalculateStdSquared(values) ==
    IF Len(values) <= 1 THEN <<0, 1>>
    ELSE LET n == Len(values)
             s == SeqSum(values)
             sq == SeqSum([i \in 1..n |-> values[i] * values[i]])
         IN  Rat(n * sq - s * s, n * n)

TrackIdsOf(records) ==
    {records[i].track_id : i \in DOMAIN records} \ {None}

CalculateTrackStatistics(frames) ==
    [t \in TrackIdsOf(frames) |->
        LET IsOfTrack(d) == d.track_id = t
            dets == SelectSeq(frames, IsOfTrack)
            timestamps == [i \in DOMAIN dets |-> dets[i].frame]
            confidences == [i \in DOMAIN dets |-> dets[i].confidence]
        IN  [num_detections   |-> Len(dets),
             duration         |-> SeqMax(timestamps) - SeqMin(timestamps),
             confidence_avg   |-> Rat(SeqSum(confidences), Len(confidences)),
             confidence_std_sq |-> CalculateStdSquared(confidences),
             bbox_consistency |-> CalculateBboxConsistency(dets),
             first_frame      |-> SeqMin(timestamps),
             last_frame       |-> SeqMax(timestamps)]]

\* a gate that forgets the check of the confidence deviation
PassesFilteringCriteriaNoStd(stats) ==
    IF stats.num_detections < cfg.min_detections_per_track THEN FALSE
    ELSE IF stats.duration < cfg.min_track_duration THEN FALSE
    ELSE IF RLt(stats.confidence_avg, RInt(cfg.min_confidence_avg)) THEN FALSE
    ELSE IF RLt(stats.bbox_consistency, cfg.min_bbox_consistency) THEN FALSE
    ELSE TRUE

\* the chain of early 'continue's of _apply_filtering_criteria
PassesFilteringCriteria(stats) ==
    IF stats.num_detections < cfg.min_detections_per_track THEN FALSE
    ELSE IF stats.duration < cfg.min_track_duration THEN FALSE
    ELSE IF RLt(stats.confidence_avg, RInt(cfg.min_confidence_avg)) THEN FALSE
    ELSE IF RLt(RInt(cfg.max_confidence_std * cfg.max_confidence_std),
                stats.confidence_std_sq) THEN FALSE
    ELSE IF RLt(stats.bbox_consistency, cfg.min_bbox_consistency) THEN FALSE
    ELSE TRUE

ApplyFilteringCriteria(stats) ==
    {t \in DOMAIN stats : PassesFilteringCriteria(stats[t])}

\* shutil.copy2 raises when the source file does not exist
CopySucceeds(crop) == crop.img.exists

\* a copy loop that does not look at the crop's track
FilterCropsOfAnyTrack(crops, valid) ==
    SelectSeq(crops, CopySucceeds)

FilterCropsByTracks(crops, valid) ==
    LET Kept(crop) == crop.track_id \in valid /\ CopySucceeds(crop)
    IN  SelectSeq(crops, Kept)

GateProcess ==
    /\ pc = "detection"
    /\ LET stats == CalculateTrackStatistics(detections)
           valid == ApplyFilteringCriteria(stats)
       IN  /\ track_stats' = stats
           /\ valid_tracks' = valid
           /\ filtered_crops' = FilterCropsByTracks(cropped_images, valid)
    /\ pc' = "intra_track_filter"
    /\ UNCHANGED <<cfg, stage1_vars, stage3_vars, stage4_vars, stage5_vars,
                   stage6_vars,
                   run_vars>>

(***************************************************************************)
(* Stage 3: IntraTrackFilterStage.                                         *)
(***************************************************************************)
\* the distinct non-null track ids of a crop list, by first appearance
\* (the iteration order of the defaultdict of _group_crops_by_track)
RECURSIVE TrackOrder(_, _)
TrackOrder(crops, seen) ==
    IF crops = <<>> THEN <<>>
    ELSE LET t == Head(crops).track_id
         IN  IF t = None \/ t \in seen THEN TrackOrder(Tail(crops), seen)
             ELSE <<t>> \o TrackOrder(Tail(crops), seen \cup {t})

\* a grouping that keys every crop by its position instead of its track id
GroupCropsByPosition(crops) ==
    LET Tracked(crop) == crop.track_id # None
        kept == SelectSeq(crops, Tracked)
    IN  [i \in DOMAIN kept |-> [track_id |-> kept[i].track_id,
                                crops |-> <<kept[i]>>]]

GroupCropsByTrack(crops) ==
    LET order == TrackOrder(crops, {})
    IN  [i \in DOMAIN order |->
            LET IsOfTrack(crop) == crop.track_id = order[i]
            IN  [track_id |-> order[i], crops |-> SelectSeq(crops, IsOfTrack)]]

PathExists(crop) == crop.img.exists
ImreadOk(crop) == crop.img.exists /\ crop.img.decodes
Loadable(crop) == PathExists(crop) /\ ImreadOk(crop)

\* the learned quality score in percent; 0.0 when the image does not load
CalculateImageQualityScore(crop) ==
    IF ImreadOk(crop) THEN crop.img.quality ELSE 0

\* 1 - min(1, (dx + dy) / 2) with dx, dy the offsets of the box centre from
\* the image centre divided by the half width and half height
CalculateCentralityScore(bbox, img_w, img_h) ==
    LET distance_x == Rat(Abs(bbox[1] + bbox[3] - img_w), img_w)
        distance_y == Rat(Abs(bbox[2] + bbox[4] - img_h), img_h)
        half == RDivInt(RAdd(distance_x, distance_y), 2)
        capped == RMin(<<1, 1>>, half)
    IN  Rat(capped[2] - capped[1], capped[2])

\* 2 * min(0.5, bbox_area / image_area)
CalculateAreaScore(bbox, img_w, img_h) ==
    LET bbox_area == (bbox[3] - bbox[1]) * (bbox[4] - bbox[2])
        ratio == RMin(<<1, 2>>, Rat(bbox_area, img_h * img_w))
    IN  Rat(2 * ratio[1], ratio[2])

RScale(p, k) == Rat(p[1] * k, p[2])

\* the weighted sum, in units of 1/10000
CalculateCompositeScore(crop, quality_score, img_w, img_h) ==
    LET centrality_score == CalculateCentralityScore(crop.bbox, img_w, img_h)
        area_score == CalculateAreaScore(crop.bbox, img_w, img_h)
    IN  RAdd(RInt(cfg.quality_weight * quality_score
                    + cfg.confidence_weight * crop.confidence),
             RAdd(RScale(centrality_score, cfg.centrality_weight * 100),
                  RScale(area_score, cfg.area_weight * 100)))

WithScores(crop, w, h, reason) ==
    LET quality_score == CalculateImageQualityScore(crop)
    IN  crop @@ [quality_score |-> quality_score,
                 composite_score |->
                     CalculateCompositeScore(crop, quality_score, w, h),
                 selection_reason |-> reason]

\* a selection that returns the last of the best crops
LastBest(crop_scores) ==
    LET i == CHOOSE k \in DOMAIN crop_scores :
                /\ \A j \in DOMAIN crop_scores :
                       RLeq(crop_scores[j].composite_score,
                            crop_scores[k].composite_score)
                /\ \A j \in (k + 1)..Len(crop_scores) :
                       RLt(crop_scores[j].composite_score,
                           crop_scores[k].composite_score)
    IN  crop_scores[i]

\* max(crop_scores, key=composite_score): the first crop no other exceeds
FirstBest(crop_scores) ==
    LET i == CHOOSE k \in DOMAIN crop_scores :
                /\ \A j \in DOMAIN crop_scores :
                       RLeq(crop_scores[j].composite_score,
                            crop_scores[k].composite_score)
                /\ \A j \in 1..(k - 1) :
                       RLt(crop_scores[j].composite_score,
                           crop_scores[k].composite_score)
    IN  crop_scores[i]

\* the evaluation loop of the several-crops branch; the result is <<>> for
\* None and <<crop>> for a crop
EvaluateAll(track_crops) ==
    LET scored == SelectSeq(track_crops, Loadable)
        crop_scores == [i \in DOMAIN scored |->
            WithScores(scored[i], scored[i].img.width, scored[i].img.height,
                       <<"best_of", 0>>)]
    IN  IF crop_scores = <<>> THEN <<>>
        ELSE <<[FirstBest(crop_scores) EXCEPT
                   !.selection_reason = <<"best_of", Len(crop_scores)>>]>>

SelectBestCropForTrack(track_crops) ==
    IF Len(track_crops) = 1 /\ PathExists(track_crops[1])
    THEN \* the only crop: scored without checking that the image decodes,
         \* with the shape (224, 224) standing in for an unreadable image
         LET crop == track_crops[1]
             w == IF ImreadOk(crop) THEN crop.img.width ELSE 224
             h == IF ImreadOk(crop) THEN crop.img.height ELSE 224
         IN  <<WithScores(crop, w, h, <<"only_crop_for_track", 1>>)>>
    ELSE EvaluateAll(track_crops)

RECURSIVE SelectLoop(_)
SelectLoop(groups) ==
    IF groups = <<>> THEN <<>>
    ELSE LET best_crop == SelectBestCropForTrack(Head(groups).crops)
         IN  IF best_crop # <<>> /\ CopySucceeds(best_crop[1])
             THEN best_crop \o SelectLoop(Tail(groups))
             ELSE SelectLoop(Tail(groups))

SelectionInfo(groups, selected) ==
    [i \in DOMAIN selected |->
        LET g == CHOOSE k \in DOMAIN groups :
                     groups[k].track_id = selected[i].track_id
        IN  [track_id |-> selected[i].track_id,
             total_crops |-> Len(groups[g].crops),
             selected_crop |-> selected[i].filename,
             quality_score |-> selected[i].quality_score,
             composite_score |-> selected[i].composite_score,
             selection_reason |-> selected[i].selection_reason]]

SelectProcess ==
    /\ pc = "intra_track_filter"
    /\ LET track_groups == GroupCropsByTrack(filtered_crops)
           selected == SelectLoop(track_groups)
       IN  /\ selected_crops' = selected
           /\ track_selection_info' = SelectionInfo(track_groups, selected)
    /\ pc' = "similarity_detection"
    /\ UNCHANGED <<cfg, stage1_vars, stage2_vars, stage4_vars, stage5_vars,
                   stage6_vars,
                   run_vars>>

(***************************************************************************)
(* Stage 4: SimilarityDetectionStage.                                      *)
(***************************************************************************)
RefWidth == 1920         \* the image size assumed for the normalisation
RefHeight == 1080

\* min(1.0, distance / diagonal) > spatial_distance_threshold, with both
\* sides squared and the centres doubled to stay in the integers
SpatiallyTooFar(crop1, crop2) ==
    LET thr == cfg.spatial_distance_threshold
        dx == (crop1.bbox[1] + crop1.bbox[3]) - (crop2.bbox[1] + crop2.bbox[3])
        dy == (crop1.bbox[2] + crop1.bbox[4]) - (crop2.bbox[2] + crop2.bbox[4])
        dist_sq_4 == dx * dx + dy * dy
        diag_sq == RefWidth * RefWidth + RefHeight * RefHeight
    IN  /\ thr[1] < thr[2]
        /\ dist_sq_4 * thr[2] * thr[2] > 4 * thr[1] * thr[1] * diag_sq

CalculateTemporalDistance(crop1, crop2) == Abs(crop1.frame - crop2.frame)

ShouldCompareCrops(crop1, crop2) ==
    IF crop1.track_id = crop2.track_id THEN FALSE
    ELSE IF cfg.use_spatial_constraint /\ SpatiallyTooFar(crop1, crop2)
        THEN FALSE
    ELSE IF CalculateTemporalDistance(crop1, crop2)
                > cfg.temporal_distance_threshold THEN FALSE
    ELSE TRUE

\* the scan of the later crops for the seed i
GroupOfSeed(crops, sim, i, processed) ==
    LET Joins(j) == /\ j \notin processed
                    /\ ShouldCompareCrops(crops[i], crops[j])
                    /\ sim[i][j] >= cfg.threshold
        later == [k \in 1..(Len(crops) - i) |-> i + k]
    IN  <<i>> \o SelectSeq(later, Joins)

SeqRange(q) == {q[k] : k \in DOMAIN q}

RECURSIVE FindGroupsFrom(_, _, _, _)
FindGroupsFrom(crops, sim, i, processed) ==
    IF i > Len(crops) THEN <<>>
    ELSE IF i \in processed THEN FindGroupsFrom(crops, sim, i + 1, processed)
    ELSE LET current_group == GroupOfSeed(crops, sim, i, processed)
             rest == FindGroupsFrom(crops, sim, i + 1,
                                    processed \cup SeqRange(current_group))
         IN  IF Len(current_group) > 1 THEN <<current_group>> \o rest
             ELSE rest

FindSimilarGroups(crops, sim) == FindGroupsFrom(crops, sim, 1, {})

\* 0.5 * quality + 0.3 * composite + 0.2 * confidence, in units of 1/100000
CombinedScore(crop) ==
    RAdd(RInt(500 * crop.quality_score + 200 * crop.confidence),
         RScale(crop.composite_score, 3))

\* a choice that always keeps the seed of the group
SelectSeedOfGroup(group_indices, crops) == group_indices[1]

\* the loop that keeps the first index whose score exceeds the best so far,
\* starting from the first index and a best score of -1
RECURSIVE BestFrom(_, _, _, _)
BestFrom(group_indices, crops, best_idx, best_score) ==
    IF group_indices = <<>> THEN best_idx
    ELSE LET idx == Head(group_indices)
             combined_score == CombinedScore(crops[idx])
         IN  IF RLt(best_score, combined_score)
             THEN BestFrom(Tail(group_indices), crops, idx, combined_score)
             ELSE BestFrom(Tail(group_indices), crops, best_idx, best_score)

SelectBestFromGroup(group_indices, crops) ==
    BestFrom(group_indices, crops, group_indices[1], <<-1, 1>>)

GroupInfo(groups, crops, sim) ==
    [g \in DOMAIN groups |->
        LET best_idx == SelectBestFromGroup(groups[g], crops)
            NotBest(idx) == idx # best_idx
            removed == SelectSeq(groups[g], NotBest)
        IN  [group_id |-> g,
             size |-> Len(groups[g]),
             indices |-> groups[g],
             selected_index |-> best_idx,
             selected_track_id |-> crops[best_idx].track_id,
             removed_track_ids |->
                 [k \in DOMAIN removed |-> crops[removed[k]].track_id],
             similarity_scores |->
                 [k \in DOMAIN removed |-> sim[best_idx][removed[k]]]]]

IndicesToRemove(info) ==
    UNION {SeqRange(info[g].indices) \ {info[g].selected_index} :
               g \in DOMAIN info}

UniqueCrops(crops, info) ==
    LET indexed == [i \in DOMAIN crops |-> i]
        Kept(i) == i \notin IndicesToRemove(info) /\ CopySucceeds(crops[i])
        kept == SelectSeq(indexed, Kept)
    IN  [k \in DOMAIN kept |-> crops[kept[k]]]

\* the matrix cosine_similarity returns for the crops: symmetric, 1.0 on
\* the diagonal and between two images that failed to load (both are
\* replaced by the same placeholder image), and elsewhere the similarity
\* of the two embeddings
SimValues == {80, 97}

CropPairs(crops) ==
    {pr \in (DOMAIN crops) \X (DOMAIN crops) : pr[1] < pr[2]}

SimilarityMatrix(crops, pair_sim) ==
    [i \in DOMAIN crops |-> [j \in DOMAIN crops |->
        IF i = j \/ (~ImreadOk(crops[i]) /\ ~ImreadOk(crops[j])) THEN 100
        ELSE pair_sim[<<Min(i, j), Max(i, j)>>]]]

DedupProcess(sim) ==
    /\ pc = "similarity_detection"
    /\ IF Len(selected_crops) = 0
       THEN /\ similarity_matrix' = <<>>
            /\ similar_groups' = <<>>
            /\ unique_crops' = <<>>
       ELSE LET groups == FindSimilarGroups(selected_crops, sim)
                info == GroupInfo(groups, selected_crops, sim)
            IN  /\ similarity_matrix' = sim
                /\ similar_groups' = info
                /\ unique_crops' = UniqueCrops(selected_crops, info)
    /\ pc' = "quality_assessment"
    /\ UNCHANGED <<cfg, stage1_vars, stage2_vars, stage3_vars, stage5_vars,
                   stage6_vars,
                   run_vars>>

Dedup ==
    \E pair_sim \in [CropPairs(selected_crops) -> SimValues] :
        DedupProcess(SimilarityMatrix(selected_crops, pair_sim))

(***************************************************************************)
(* Stage 5: QualityAssessmentStage.                                        *)
(***************************************************************************)
CalculateClipQuality(img) ==
    IF ~cfg.enable_clip_quality THEN 100 ELSE img.quality

CalculateBlurScore(img) ==
    IF ~cfg.enable_blur_detection THEN cfg.max_blur_variance + 1
    ELSE img.blur

CalculateBrightnessStats(img) ==
    IF ~cfg.enable_brightness_check THEN <<128, TRUE>>
    ELSE <<img.brightness,
           cfg.min_brightness <= img.brightness
               /\ img.brightness <= cfg.max_brightness>>

\* a contrast check that accepts what lies at or below the threshold
CalculateContrastStatsInverted(img) ==
    IF ~cfg.enable_contrast_check THEN <<cfg.min_contrast_std + 1, TRUE>>
    ELSE <<img.contrast, img.contrast <= cfg.min_contrast_std>>

CalculateContrastStats(img) ==
    IF ~cfg.enable_contrast_check THEN <<cfg.min_contrast_std + 1, TRUE>>
    ELSE <<img.contrast, img.contrast >= cfg.min_contrast_std>>

CheckResolution(img) ==
    IF ~cfg.enable_resolution_check THEN <<<<img.width, img.height>>, TRUE>>
    ELSE <<<<img.width, img.height>>,
           img.width >= cfg.min_resolution[1]
               /\ img.height >= cfg.min_resolution[2]>>

\* the bundle for an image that cv2.imread could not load; it has no
\* per-check flags, which the stage reads with the default True
LoadFailure ==
    [valid |-> FALSE, error |-> TRUE, clip_quality |-> 0, clip_valid |-> TRUE,
     blur_score |-> 0, blur_valid |-> TRUE, brightness |-> 0,
     brightness_valid |-> TRUE, contrast_std |-> 0, contrast_valid |-> TRUE,
     resolution |-> <<0, 0>>, resolution_valid |-> TRUE]

\* an assessment that lets any one passing check validate the image
AssessImageQualityAny(img) ==
    IF ~img.decodes THEN LoadFailure
    ELSE LET clip_quality == CalculateClipQuality(img)
             blur_score == CalculateBlurScore(img)
             brightness == CalculateBrightnessStats(img)
             contrast == CalculateContrastStats(img)
             resolution == CheckResolution(img)
             clip_valid == IF cfg.enable_clip_quality
                           THEN clip_quality >= cfg.min_quality_score
                           ELSE TRUE
             blur_valid == IF cfg.enable_blur_detection
                           THEN blur_score >= cfg.max_blur_variance
                           ELSE TRUE
         IN  [valid |-> \/ clip_valid
                        \/ blur_valid
                        \/ brightness[2]
                        \/ contrast[2]
                        \/ resolution[2],
              error |-> FALSE,
              clip_quality |-> clip_quality, clip_valid |-> clip_valid,
              blur_score |-> blur_score, blur_valid |-> blur_valid,
              brightness |-> brightness[1], brightness_valid |-> brightness[2],
              contrast_std |-> contrast[1], contrast_valid |-> contrast[2],
              resolution |-> resolution[1], resolution_valid |-> resolution[2]]

AssessImageQuality(img) ==
    IF ~img.decodes THEN LoadFailure
    ELSE LET clip_quality == CalculateClipQuality(img)
             blur_score == CalculateBlurScore(img)
             brightness == CalculateBrightnessStats(img)
             contrast == CalculateContrastStats(img)
             resolution == CheckResolution(img)
             clip_valid == IF cfg.enable_clip_quality
                           THEN clip_quality >= cfg.min_quality_score
                           ELSE TRUE
             blur_valid == IF cfg.enable_blur_detection
                           THEN blur_score >= cfg.max_blur_variance
                           ELSE TRUE
         IN  [valid |-> /\ clip_valid
                        /\ blur_valid
                        /\ brightness[2]
                        /\ contrast[2]
                        /\ resolution[2],
              error |-> FALSE,
              clip_quality |-> clip_quality, clip_valid |-> clip_valid,
              blur_score |-> blur_score, blur_valid |-> blur_valid,
              brightness |-> brightness[1], brightness_valid |-> brightness[2],
              contrast_std |-> contrast[1], contrast_valid |-> contrast[2],
              resolution |-> resolution[1], resolution_valid |-> resolution[2]]

\* quality_assessments after the loop: a crop whose path does not exist is
\* skipped, and a later crop of the same track overwrites an earlier one
RECURSIVE AssessLoop(_, _)
AssessLoop(crops, assessments) ==
    IF crops = <<>> THEN assessments
    ELSE LET crop == Head(crops)
         IN  IF ~PathExists(crop) THEN AssessLoop(Tail(crops), assessments)
             ELSE AssessLoop(Tail(crops),
                      (crop.track_id :> AssessImageQuality(crop.img))
                          @@ assessments)

\* a loop that copies every assessed crop, valid or not
HighQualityCropsUnfiltered(crops) ==
    LET Passes(crop) == PathExists(crop) /\ CopySucceeds(crop)
        kept == SelectSeq(crops, Passes)
    IN  [k \in DOMAIN kept |->
            kept[k] @@ [quality_assessment |->
                            AssessImageQuality(kept[k].img)]]

HighQualityCrops(crops) ==
    LET Passes(crop) == /\ PathExists(crop)
                        /\ AssessImageQuality(crop.img).valid
                        /\ CopySucceeds(crop)
        kept == SelectSeq(crops, Passes)
    IN  [k \in DOMAIN kept |->
            kept[k] @@ [quality_assessment |->
                            AssessImageQuality(kept[k].img)]]

QualityProcess ==
    /\ pc = "quality_assessment"
    /\ IF Len(unique_crops) = 0
       THEN /\ quality_assessments' = <<>>
            /\ high_quality_crops' = <<>>
       ELSE /\ quality_assessments' = AssessLoop(unique_crops, <<>>)
            /\ high_quality_crops' = HighQualityCrops(unique_crops)
    /\ pc' = "final_validation"
    /\ UNCHANGED <<cfg, stage1_vars, stage2_vars, stage3_vars, stage4_vars,
                   stage6_vars,
                   run_vars>>

\* what is kept of a run for comparison with a later run on the same input
Snapshot ==
    [cfg |-> cfg,
     high_quality_crops |-> high_quality_crops,
     validation_results |-> validation_results,
     validated_crops |-> validated_crops,
     plant_identifications |-> plant_identifications,
     pc |-> pc]

\* a second QualityAssessmentStage, constructed with another
\* min_contrast_std and otherwise the same settings, processes the crops
\* the first one was given
ReassessQuality(min_contrast_std) ==
    /\ pc = "final_validation"
    /\ previous_run = <<>>
    /\ previous_run' = <<Snapshot>>
    /\ cfg' = [cfg EXCEPT !.min_contrast_std = min_contrast_std]
    /\ UNCHANGED <<pc, stage1_vars, stage2_vars, stage3_vars, stage4_vars,
                   stage6_vars, orchestrator_vars, config_vars, frame_vars>>
    /\ quality_assessments' = AssessLoop(unique_crops, <<>>)'
    /\ high_quality_crops' = HighQualityCrops(unique_crops)'

(***************************************************************************)
(* Texts are sequences of one-character strings, with the string methods   *)
(* and regular expressions that stage 6 applies to the judge's responses.  *)
(***************************************************************************)
UpperCase == <<"A", "B", "C", "D", "E", "F", "G", "H", "I", "J", "K", "L", "M",
               "N", "O", "P", "Q", "R", "S", "T", "U", "V", "W", "X", "Y", "Z">>
LowerCase == <<"a", "b", "c", "d", "e", "f", "g", "h", "i", "j", "k", "l", "m",
               "n", "o", "p", "q", "r", "s", "t", "u", "v", "w", "x", "y", "z">>
Digits == <<"0", "1", "2", "3", "4", "5", "6", "7", "8", "9">>

IsDigit(c) == \E i \in DOMAIN Digits : Digits[i] = c
DigitValue(c) == (CHOOSE i \in DOMAIN Digits : Digits[i] = c) - 1
IsUpper(c) == \E i \in DOMAIN UpperCase : UpperCase[i] = c
IsLower(c) == \E i \in DOMAIN LowerCase : LowerCase[i] = c
\* \w of the regular expressions
IsWordChar(c) == IsDigit(c) \/ IsUpper(c) \/ IsLower(c) \/ c = "_"

\* str.lower()
Lower(text) ==
    [i \in DOMAIN text |->
        IF IsUpper(text[i])
        THEN LowerCase[CHOOSE k \in DOMAIN UpperCase : UpperCase[k] = text[i]]
        ELSE text[i]]

\* str.replace(" ", "")
RemoveSpaces(text) ==
    LET NotSpace(c) == c # " "
    IN  SelectSeq(text, NotSpace)

\* str.lstrip() and str.rstrip()
RECURSIVE StripLeft(_)
StripLeft(text) ==
    IF text # <<>> /\ Head(text) = " " THEN StripLeft(Tail(text)) ELSE text

RECURSIVE StripRight(_)
StripRight(text) ==
    IF text # <<>> /\ text[Len(text)] = " "
    THEN StripRight(SubSeq(text, 1, Len(text) - 1))
    ELSE text

\* str.strip()
Strip(text) == StripRight(StripLeft(text))

\* pat in text
Contains(text, pat) ==
    \E i \in 1..(Len(text) - Len(pat) + 1) :
        SubSeq(text, i, i + Len(pat) - 1) = pat

\* text.startswith(pat)
StartsWith(text, pat) ==
    Len(text) >= Len(pat) /\ SubSeq(text, 1, Len(pat)) = pat

\* re.search(r'\bword\b', text)
HasWord(text, word) ==
    \E i \in 1..(Len(text) - Len(word) + 1) :
        /\ SubSeq(text, i, i + Len(word) - 1) = word
        /\ i = 1 \/ ~IsWordChar(text[i - 1])
        /\ i + Len(word) > Len(text) \/ ~IsWordChar(text[i + Len(word)])

IsDigitAt(text, i) == i \in DOMAIN text /\ IsDigit(text[i])

\* the longest run of digits that starts at position i: the group (\d+)
DigitRun(text, i) ==
    LET stops == {j \in i..(Len(text) + 1) : ~IsDigitAt(text, j)}
        stop == CHOOSE j \in stops : \A k \in stops : j <= k
    IN  SubSeq(text, i, stop - 1)

\* int() of a run of digits
RECURSIVE ToInt(_)
ToInt(digits) ==
    IF digits = <<>> THEN 0
    ELSE 10 * ToInt(SubSeq(digits, 1, Len(digits) - 1))
             + DigitValue(digits[Len(digits)])

T_score == <<"s", "c", "o", "r", "e">>
T_yes == <<"y", "e", "s">>
T_no == <<"n", "o">>
T_answer_yes == <<"a", "n", "s", "w", "e", "r", ":", "y", "e", "s">>
T_answer_no == <<"a", "n", "s", "w", "e", "r", ":", "n", "o">>
T_yes_comma == <<"y", "e", "s", ",">>
T_no_comma == <<"n", "o", ",">>

\* re.search(r'score:?(\d+)', text): where the group of the leftmost match
\* starts, 0 when there is no match
ScoreMatch(text) ==
    LET GroupStart(i) ==
            IF text[i + 5] = ":" /\ IsDigitAt(text, i + 6) THEN i + 6 ELSE i + 5
        matches == {i \in 1..(Len(text) - 5) :
                       /\ SubSeq(text, i, i + 4) = T_score
                       /\ IsDigitAt(text, GroupStart(i))}
    IN  IF matches = {} THEN 0
        ELSE GroupStart(CHOOSE i \in matches : \A j \in matches : i <= j)

\* re.search(r'(\d+)', text): where the first run of digits starts, or 0
NumberMatch(text) ==
    LET digit_positions == {i \in DOMAIN text : IsDigit(text[i])}
    IN  IF digit_positions = {} THEN 0
        ELSE CHOOSE i \in digit_positions : \A j \in digit_positions : i <= j

DefaultScore == 50

\* (None, None)
ParseFailure == [parsed |-> FALSE, answer |-> FALSE, score |-> 0]

ParseValidationResponse(response_text) ==
    LET response_lower == RemoveSpaces(Lower(response_text))
        says_yes == \/ Contains(response_lower, T_answer_yes)
                    \/ Contains(response_lower, T_yes_comma)
                    \/ StartsWith(Lower(response_text), T_yes)
        says_no == \/ Contains(response_lower, T_answer_no)
                   \/ Contains(response_lower, T_no_comma)
                   \/ StartsWith(Lower(response_text), T_no)
        word_yes == HasWord(response_lower, T_yes)
        word_no == HasWord(response_lower, T_no)
        score_match == ScoreMatch(response_lower)
        number_match == NumberMatch(response_lower)
        score == IF score_match # 0
                     THEN ToInt(DigitRun(response_lower, score_match))
                 ELSE IF number_match # 0
                     THEN ToInt(DigitRun(response_lower, number_match))
                 ELSE DefaultScore
    IN  IF says_yes THEN [parsed |-> TRUE, answer |-> TRUE, score |-> score]
        ELSE IF says_no THEN [parsed |-> TRUE, answer |-> FALSE, score |-> score]
        ELSE IF word_yes THEN [parsed |-> TRUE, answer |-> TRUE, score |-> score]
        ELSE IF word_no THEN [parsed |-> TRUE, answer |-> FALSE, score |-> score]
        ELSE ParseFailure

\* the digits of a natural number
RECURSIVE ToDigits(_)
ToDigits(n) ==
    IF n < 10 THEN <<Digits[n + 1]>>
    ELSE ToDigits(n \div 10) \o <<Digits[(n % 10) + 1]>>

T_answer == <<"a", "n", "s", "w", "e", "r", ":", " ">>
T_comma_score == <<",", " ", "s", "c", "o", "r", "e", ":", " ">>

\* "answer: yes, score: N" and "answer: no, score: N"
StrictForm(answer, score) ==
    T_answer \o (IF answer THEN T_yes ELSE T_no) \o T_comma_score
        \o ToDigits(score)

\* the texts that the judges of the specifications send
T_maybe == <<"m", "a", "y", "b", "e">>
T_oak == <<"o", "a", "k">>

\* str.upper()
Upper(text) ==
    LET Up(c) == IF IsLower(c)
                 THEN UpperCase[CHOOSE k \in DOMAIN LowerCase : LowerCase[k] = c]
                 ELSE c
        RECURSIVE UpTo(_)
        UpTo(n) == IF n = 0 THEN <<>> ELSE Append(UpTo(n - 1), Up(text[n]))
    IN  UpTo(Len(text))

\* the scores the judge puts in an answer of the requested form
StrictScores == {0, 7, 60, 85, 100, 150}

StrictTexts == {StrictForm(a, n) : a \in BOOLEAN, n \in StrictScores}

\* what the judge lets follow a leading yes or no
Tails ==
    {<<>>, <<" ", "w", "a", "y">>, <<".">>, <<",", " ", "o", "k">>,
     <<" ", "y", "e", "s", ",", " ", "o", "k">>,
     <<",", " ", "n", "o", "t", " ", "y", "e", "s">>,
     <<" ", "n", "o", ",", " ", "o", "k">>,
     <<"t", " ", "s", "u", "r", "e">>,
     <<" ", "8", "5">>,
     <<",", " ", "s", "c", "o", "r", "e", " ", "3", "0">>,
     <<" ", "1", " ", "s", "c", "o", "r", "e", ":", "9", "0">>}

LeadingTexts == {lead \o tail : lead \in {T_yes, T_no}, tail \in Tails}

\* answers in other shapes
FreeTexts ==
    {T_maybe, <<>>, <<"8", "5">>,
     <<"i", "t", " ", "i", "s", " ", "y", "e", "s">>,
     <<"i", "t", " ", "i", "s", " ", "n", "o">>,
     <<"e", "y", "e", "s", " ", "7", "0">>,
     <<"k", "n", "o", "w", "n">>,
     <<"s", "c", "o", "r", "e", ":", " ", "9", "0", ",", " ",
       "a", "n", "s", "w", "e", "r", ":", " ", "n", "o">>,
     <<" ", "y", "e", "s", " ">>}

ParseTexts ==
    StrictTexts \cup LeadingTexts \cup FreeTexts
        \cup {Upper(t) : t \in {StrictForm(TRUE, 85), StrictForm(FALSE, 7),
                                T_yes, T_no \o <<" ", "w", "a", "y">>}}

JudgeTexts == ParseTexts

\* _parse_validation_response of every such text as the request returns it,
\* computed once
ParsedResponses ==
    {[text |-> Strip(t), parsed |-> ParseValidationResponse(Strip(t))] :
        t \in JudgeTexts}

ParsedResponse(response_text) ==
    IF \E r \in ParsedResponses : r.text = response_text
    THEN (CHOOSE r \in ParsedResponses : r.text = response_text).parsed
    ELSE ParseValidationResponse(response_text)

(***************************************************************************)
(* Stage 6: FinalValidationStage.  The judge is the environment: to every  *)
(* request it opposes a sequence of attempt outcomes.                      *)
(***************************************************************************)
\* what one requests.post of _make_api_request can come to
Ok(text) == [kind |-> "ok", text |-> text]              \* 200, {"response": text}
BadStatus == [kind |-> "status", text |-> <<>>]         \* a status other than 200
NetworkFailure == [kind |-> "network", text |-> <<>>]   \* RequestException, timeout
Malformed == [kind |-> "malformed", text |-> <<>>]      \* 200, no string 'response'

\* the judge goes on as in the last outcome it was given
OutcomeAt(outcomes, attempt) ==
    IF attempt <= Len(outcomes) THEN outcomes[attempt]
    ELSE outcomes[Len(outcomes)]

NoCalls == [total_calls |-> 0, successful_calls |-> 0, failed_calls |-> 0]

AddCalls(a, b) ==
    [total_calls |-> a.total_calls + b.total_calls,
     successful_calls |-> a.successful_calls + b.successful_calls,
     failed_calls |-> a.failed_calls + b.failed_calls]

\* the retry loop from the given attempt on: the response text, None or
\* the exception that escapes, with the calls counted and the backoffs slept
RECURSIVE ApiLoop(_, _, _, _)
ApiLoop(outcomes, attempt, calls, sleeps) ==
    IF attempt > cfg.retry_attempts
    THEN [kind |-> "none", text |-> <<>>, sleeps |-> sleeps,
          calls |-> [total_calls |-> calls, successful_calls |-> 0,
                     failed_calls |-> 1]]
    ELSE LET outcome == OutcomeAt(outcomes, attempt)
         IN  IF outcome.kind = "ok"
             THEN [kind |-> "text", text |-> Strip(outcome.text),
                   sleeps |-> sleeps,
                   calls |-> [total_calls |-> calls + 1,
                              successful_calls |-> 1, failed_calls |-> 0]]
             ELSE IF outcome.kind = "malformed"
             THEN [kind |-> "raises", text |-> <<>>, sleeps |-> sleeps,
                   calls |-> [total_calls |-> calls + 1,
                              successful_calls |-> 0, failed_calls |-> 0]]
             ELSE IF outcome.kind = "network"
             THEN ApiLoop(outcomes, attempt + 1, calls + 1,
                          IF attempt < cfg.retry_attempts THEN sleeps + 1
                          ELSE sleeps)
             ELSE ApiLoop(outcomes, attempt + 1, calls + 1, sleeps)

MakeApiRequest(outcomes) ==
    IF ~cfg.api_endpoint
    THEN [kind |-> "none", text |-> <<>>, sleeps |-> 0, calls |-> NoCalls]
    ELSE ApiLoop(outcomes, 1, 0, 0)

T_json_oak ==
    <<"{", "\"", "c", "o", "m", "m", "o", "n", "_", "n", "a", "m", "e", "\"",
      ":", "\"", "o", "a", "k", "\"", "}">>
OakRecord == << <<"common_name", "oak">> >>

\* json.loads on the documents the judge of the model sends: an object, the
\* empty object, and anything else, which is not JSON
JsonLoads(doc) ==
    IF doc = T_json_oak THEN <<OakRecord>>
    ELSE IF doc = <<"{", "}">> THEN << <<>> >>
    ELSE <<>>

\* re.search(r'\{.*\}', text, re.DOTALL) and json.loads of the match;
\* <<>> stands for None
ParseIdentificationResponse(text) ==
    LET closes == {j \in DOMAIN text : text[j] = "}"}
        opens == {i \in DOMAIN text :
                     text[i] = "{" /\ \E j \in closes : j > i}
    IN  IF opens = {} THEN <<>>
        ELSE JsonLoads(SubSeq(text,
                 CHOOSE i \in opens : \A k \in opens : i <= k,
                 CHOOSE j \in closes : \A k \in closes : j >= k))

\* open(image_path, "rb") succeeds and the file has content
EncodeOk(crop) == crop.img.exists

NoResult ==
    [raised |-> FALSE, validation_passed |-> FALSE, validation_score |-> 0,
     has_answer |-> FALSE, validation_answer |-> FALSE, error |-> "",
     raw_validation_response |-> <<>>, plant_identification |-> <<>>,
     identification_error |-> FALSE]

\* a verdict that does not look at the score
ValidationPassedAnyScore(answer, score) == answer

ValidationPassed(answer, score) ==
    answer /\ score >= cfg.min_validation_score

\* the result dictionary; raised when an exception escapes the method
ValidateSingleImage(crop, reply) ==
    LET validation == MakeApiRequest(reply.validation)
        parsed == ParsedResponse(validation.text)
        passed == ValidationPassed(parsed.answer, parsed.score)
        result == [NoResult EXCEPT !.validation_passed = passed,
                                   !.has_answer = TRUE,
                                   !.validation_answer = parsed.answer,
                                   !.validation_score = parsed.score,
                                   !.raw_validation_response = validation.text]
        identification == MakeApiRequest(reply.identification)
        data == ParseIdentificationResponse(identification.text)
    IN  IF ~EncodeOk(crop)
            THEN [NoResult EXCEPT !.error = "Failed to encode image"]
        ELSE IF validation.kind = "raises"
            THEN [NoResult EXCEPT !.raised = TRUE]
        ELSE IF validation.kind = "none"
            THEN [NoResult EXCEPT !.error = "API request failed"]
        ELSE IF ~parsed.parsed
            THEN [NoResult EXCEPT
                     !.error = "Failed to parse validation response",
                     !.raw_validation_response = validation.text]
        ELSE IF ~(passed /\ cfg.enable_plant_identification)
            THEN result
        ELSE IF identification.kind = "raises"
            THEN [NoResult EXCEPT !.raised = TRUE]
        ELSE IF identification.kind = "text" /\ identification.text # <<>>
                    /\ data # <<>> /\ data[1] # <<>>
            THEN [result EXCEPT !.plant_identification = data]
        ELSE [result EXCEPT !.identification_error = TRUE]

\* what the method adds to api_stats, and how often it sleeps a backoff
RequestsOf(crop, reply) ==
    LET validation == MakeApiRequest(reply.validation)
        parsed == ParsedResponse(validation.text)
        identification == MakeApiRequest(reply.identification)
        none == [calls |-> NoCalls, sleeps |-> 0, requests |-> 0]
    IN  IF ~EncodeOk(crop) THEN none
        ELSE IF /\ validation.kind = "text"
                /\ parsed.parsed
                /\ ValidationPassed(parsed.answer, parsed.score)
                /\ cfg.enable_plant_identification
            THEN [calls |-> AddCalls(validation.calls, identification.calls),
                  sleeps |-> validation.sleeps + identification.sleeps,
                  requests |-> 2]
        ELSE [calls |-> validation.calls, sleeps |-> validation.sleeps,
              requests |-> 1]

CompletionOrders(n) ==
    {f \in [1..n -> 1..n] : \A i, j \in 1..n : f[i] = f[j] => i = j}

Identity(n) == [i \in 1..n |-> i]

UsesParallel(crops) == cfg.enable_parallel /\ Len(crops) > 1

\* _validate_image_parallel's result for a crop whose file is not there
PathNotFound == [NoResult EXCEPT !.error = "Image path not found"]

\* what _validate_single_image returns for each of the first n crops
RECURSIVE ResultsUpTo(_, _, _)
ResultsUpTo(crops, replies, n) ==
    IF n = 0 THEN <<>>
    ELSE Append(ResultsUpTo(crops, replies, n - 1),
                ValidateSingleImage(crops[n], replies[n]))

ResultsOf(crops, replies) == ResultsUpTo(crops, replies, Len(crops))

\* the requests that the validation of each of the first n crops makes
RECURSIVE RequestsUpTo(_, _, _)
RequestsUpTo(crops, replies, n) ==
    IF n = 0 THEN <<>>
    ELSE Append(RequestsUpTo(crops, replies, n - 1),
                RequestsOf(crops[n], replies[n]))

RequestsOfRun(crops, replies) == RequestsUpTo(crops, replies, Len(crops))

\* validation_results: in sequential mode a crop whose file is missing is
\* skipped, in parallel mode it is recorded as failed; in parallel mode a
\* crop whose validation raised is logged and left out
RECURSIVE ValidationResults(_, _, _, _)
ValidationResults(crops, results, order, k) ==
    IF k > Len(crops) THEN <<>>
    ELSE LET i == order[k]
             crop == crops[i]
             rest == ValidationResults(crops, results, order, k + 1)
         IN  IF PathExists(crop)
             THEN IF results[i].raised THEN rest
                  ELSE rest @@ (crop.track_id :> results[i])
             ELSE IF UsesParallel(crops)
             THEN rest @@ (crop.track_id :> PathNotFound)
             ELSE rest

ValidatedCrops(crops, results, order) ==
    LET ordered == [k \in DOMAIN crops |-> order[k]]
        Accepted(i) == /\ PathExists(crops[i])
                       /\ results[i].validation_passed
                       /\ CopySucceeds(crops[i])
        kept == SelectSeq(ordered, Accepted)
    IN  [k \in DOMAIN kept |->
            crops[kept[k]] @@ [validation_result |-> results[kept[k]]]]

PlantIdentifications(accepted) ==
    LET Identified(crop) == crop.validation_result.plant_identification # <<>>
        identified == SelectSeq(accepted, Identified)
    IN  [t \in {identified[k].track_id : k \in DOMAIN identified} |->
            LET k == CHOOSE k \in DOMAIN identified :
                         identified[k].track_id = t
            IN  identified[k].validation_result.plant_identification[1]]

\* plants_found.sort(key=validation_score, reverse=True), by the other
\* end: the lowest score first
RECURSIVE SortByScoreAscending(_)
SortByScoreAscending(plants) ==
    IF plants = <<>> THEN <<>>
    ELSE LET rest == SortByScoreAscending(Tail(plants))
             p == Head(plants)
             Before(q) == q.validation_score < p.validation_score
             NotBefore(q) == ~Before(q)
         IN  SelectSeq(rest, Before) \o <<p>> \o SelectSeq(rest, NotBefore)

\* plants_found.sort(key=validation_score, reverse=True): the sort is
\* stable, plants of equal score keep the order they have in the list
RECURSIVE SortByScore(_)
SortByScore(plants) ==
    IF plants = <<>> THEN <<>>
    ELSE LET rest == SortByScore(Tail(plants))
             p == Head(plants)
             Before(q) == q.validation_score > p.validation_score
             NotBefore(q) == ~Before(q)
         IN  SelectSeq(rest, Before) \o <<p>> \o SelectSeq(rest, NotBefore)

\* one plant_info of the summary
PlantInfo(crop, identifications) ==
    [track_id |-> crop.track_id,
     validation_score |-> crop.validation_result.validation_score,
     frame_captured |-> crop.frame,
     identified |-> crop.track_id \in DOMAIN identifications]

RECURSIVE PlantsFound(_, _)
PlantsFound(accepted, identifications) ==
    IF accepted = <<>> THEN <<>>
    ELSE <<PlantInfo(Head(accepted), identifications)>>
         \o PlantsFound(Tail(accepted), identifications)

RECURSIVE SumOfScores(_)
SumOfScores(plants) ==
    IF plants = <<>> THEN 0
    ELSE Head(plants).validation_score + SumOfScores(Tail(plants))

GenerateSummary(accepted, identifications) ==
    LET plants == SortByScore(PlantsFound(accepted, identifications))
    IN  [total_plants_found |-> Len(plants),
         plants_with_identification |-> Cardinality(DOMAIN identifications),
         average_validation_score |->
             Rat(SumOfScores(plants), Max(1, Len(plants))),
         plants |-> plants]

\* the first crop of the sequential loop whose validation raises, or 0
FirstRaising(crops, results) ==
    LET raising == {i \in DOMAIN crops :
                       PathExists(crops[i]) /\ results[i].raised}
    IN  IF raising = {} THEN 0
        ELSE CHOOSE i \in raising : \A j \in raising : i <= j

\* the sequential loop has no handler around _validate_single_image
SequentialRaises(crops, results) ==
    ~UsesParallel(crops) /\ FirstRaising(crops, results) # 0

\* an answer that is accepted when its score is at most the threshold
ValidationOutcomeInverted(crops, results, order) ==
    LET Inverted(i) ==
            LET r == results[i]
                passed == /\ r.has_answer
                          /\ r.validation_answer
                          /\ r.validation_score <= cfg.min_validation_score
            IN  IF r.has_answer THEN [r EXCEPT !.validation_passed = passed]
                ELSE r
        inverted == [i \in DOMAIN results |-> Inverted(i)]
        accepted == ValidatedCrops(crops, inverted, order)
    IN  [pc |-> "done",
         validation_results |-> ValidationResults(crops, inverted, order, 1),
         validated_crops |-> accepted,
         plant_identifications |-> PlantIdentifications(accepted),
         summary |-> <<GenerateSummary(accepted,
                                       PlantIdentifications(accepted))>>,
         completed |-> IF UsesParallel(crops) THEN Len(crops) ELSE 0]

\* what process() returns, or that it raised
ValidationOutcome(crops, results, order) ==
    LET nothing == [pc |-> "done", validation_results |-> <<>>,
                    validated_crops |-> <<>>, plant_identifications |-> <<>>,
                    summary |-> <<>>, completed |-> 0]
        accepted == ValidatedCrops(crops, results, order)
    IN  IF Len(crops) = 0 THEN nothing
        ELSE IF SequentialRaises(crops, results)
            THEN [nothing EXCEPT !.pc = "failed"]
        ELSE [pc |-> "done",
              validation_results |->
                  ValidationResults(crops, results, order, 1),
              validated_crops |-> accepted,
              plant_identifications |-> PlantIdentifications(accepted),
              summary |-> <<GenerateSummary(accepted,
                                            PlantIdentifications(accepted))>>,
              completed |-> IF UsesParallel(crops) THEN Len(crops) ELSE 0]

\* the calls a crop's validation counts, none for a crop the loop skips
CallsOfCrop(crops, requests, i) ==
    IF PathExists(crops[i]) THEN requests[i].calls ELSE NoCalls

RECURSIVE SumCalls(_, _, _)
SumCalls(crops, requests, n) ==
    IF n = 0 THEN NoCalls
    ELSE AddCalls(SumCalls(crops, requests, n - 1),
                  CallsOfCrop(crops, requests, n))

\* the values a counter can end with when the threads add the given
\* numbers of increments to it, each increment a read and a later write
RaceRange(increments) ==
    LET active == {i \in DOMAIN increments : increments[i] > 0}
        sum == SeqSum(increments)
    IN  IF Cardinality(active) <= 1 \/ cfg.max_workers <= 1 THEN {sum}
        ELSE IF \E i \in active : increments[i] = 1 THEN 1..sum
        ELSE 2..sum

\* what a run adds to api_stats: the main thread's sum in sequential mode,
\* up to the crop that raises; in parallel mode what the unsynchronised
\* increments of the workers leave
PossibleCalls(crops, results, requests) ==
    IF ~UsesParallel(crops)
    THEN {SumCalls(crops, requests,
                   IF FirstRaising(crops, results) # 0
                   THEN FirstRaising(crops, results) ELSE Len(crops))}
    ELSE [total_calls :
              RaceRange([i \in DOMAIN crops |->
                            CallsOfCrop(crops, requests, i).total_calls]),
          successful_calls :
              RaceRange([i \in DOMAIN crops |->
                            CallsOfCrop(crops, requests, i).successful_calls]),
          failed_calls :
              RaceRange([i \in DOMAIN crops |->
                            CallsOfCrop(crops, requests, i).failed_calls])]

ValidateProcess(replies, results, order, calls) ==
    /\ pc = "final_validation"
    /\ \E out \in {ValidationOutcome(high_quality_crops, results, order)} :
           /\ pc' = out.pc
           /\ validation_results' = out.validation_results
           /\ validated_crops' = out.validated_crops
           /\ plant_identifications' = out.plant_identifications
           /\ summary' = out.summary
           /\ completed' = out.completed
    /\ judge' = replies
    /\ api_stats' = AddCalls(api_stats, calls)
    /\ UNCHANGED <<cfg, stage1_vars, stage2_vars, stage3_vars, stage4_vars,
                   stage5_vars, workers, run_vars>>

\* the judge cannot be reached
RequestFailed ==
    [validation |-> <<NetworkFailure>>, identification |-> <<NetworkFailure>>]

\* the judge answers in the requested format and identifies the plant
Reply(answer, score) ==
    [validation |-> <<Ok(StrictForm(answer, score))>>,
     identification |-> <<Ok(T_json_oak)>>]

\* the judge of the pipeline specification approves or disapproves
JudgeReplies == {Reply(TRUE, 85), Reply(FALSE, 85)}

\* one run of the stage against a judge that gives the replies
ValidateAgainst(replies) ==
    \E crops \in {high_quality_crops} :
    \E results \in {ResultsOf(crops, replies)} :
    \E requests \in {RequestsOfRun(crops, replies)} :
    \E order \in CompletionOrders(Len(crops)) :
        /\ UsesParallel(crops) \/ order = Identity(Len(crops))
        /\ \E calls \in PossibleCalls(crops, results, requests) :
               ValidateProcess(replies, results, order, calls)

Validate ==
    /\ pc = "final_validation"
    /\ \E replies \in [DOMAIN high_quality_crops -> JudgeReplies] :
           ValidateAgainst(replies)

\* a second FinalValidationStage is constructed with the given settings, to
\* process the crops the first one was given
Reconfigure(new_cfg) ==
    /\ pc \in {"done", "failed"}
    /\ previous_run = <<>>
    /\ high_quality_crops # <<>>
    /\ previous_run' = <<Snapshot>>
    /\ cfg' = new_cfg
    /\ pc' = "final_validation"
    /\ validation_results' = <<>>
    /\ validated_crops' = <<>>
    /\ plant_identifications' = <<>>
    /\ summary' = <<>>
    /\ api_stats' = NoCalls
    /\ completed' = 0
    /\ UNCHANGED <<stage1_vars, stage2_vars, stage3_vars, stage4_vars,
                   stage5_vars, judge, workers, orchestrator_vars,
                   config_vars, frame_vars>>

\* its run, the judge answering for each crop as it did
Revalidate ==
    /\ pc = "final_validation"
    /\ previous_run # <<>>
    /\ ValidateAgainst(judge)

(***************************************************************************)
(* The gate on its own: any detection log of up to MaxDet detections over  *)
(* two tracks, under the default thresholds.                               *)
(***************************************************************************)
NoPipeline ==
    /\ pipelines = <<>>
    /\ clock = 0
    /\ stage_calls = <<>>
    /\ disk = <<>>
    /\ runs = <<>>
    /\ config = <<>>
    /\ stages = <<>>
    /\ updates = <<>>
    /\ dirs = <<>>
    /\ steps = <<>>
    /\ failure = <<>>

NoData ==
    /\ detections = <<>>
    /\ cropped_images = <<>>
    /\ track_stats = <<>>
    /\ valid_tracks = {}
    /\ filtered_crops = <<>>
    /\ selected_crops = <<>>
    /\ track_selection_info = <<>>
    /\ similarity_matrix = <<>>
    /\ similar_groups = <<>>
    /\ unique_crops = <<>>
    /\ quality_assessments = <<>>
    /\ high_quality_crops = <<>>
    /\ validation_results = <<>>
    /\ validated_crops = <<>>
    /\ plant_identifications = <<>>
    /\ summary = <<>>
    /\ judge = <<>>
    /\ api_stats = NoCalls
    /\ completed = 0
    /\ workers = <<>>
    /\ previous_run = <<>>

Empty == NoData /\ NoPipeline

GateTracks == {1, 2}
GateGaps == {1, 30}
GateConfidences == {20, 90}
GateBoxes == {BoxA, BoxB, BoxC}

InitGate ==
    /\ pc = "detection"
    /\ cfg = DefaultConfig
    /\ Empty

\* an untracked detection joins no track, whatever its box and confidence
DetectForGate ==
    \/ \E gap \in GateGaps, t \in GateTracks, c \in GateConfidences,
          b \in GateBoxes :
           DetectObject(MaxDet, gap, t, c, b, GoodImage)
    \/ \E gap \in GateGaps :
           DetectObject(MaxDet, gap, None, 90, BoxA, GoodImage)

NextGate == DetectForGate \/ GateProcess

SpecGate == InitGate /\ [][NextGate]_vars

Gated == pc # "detection"

\* C1: a track is admitted if and only if its statistics meet all five
\* thresholds: detection count >= minimum, duration >= minimum, mean
\* confidence >= minimum, confidence deviation <= maximum and mean
\* consecutive IoU >= minimum.
C1_AdmittedIffAllCriteria ==
    Gated =>
        \A t \in DOMAIN track_stats :
            t \in valid_tracks <=>
                /\ track_stats[t].num_detections >= cfg.min_detections_per_track
                /\ track_stats[t].duration >= cfg.min_track_duration
                /\ RGeq(track_stats[t].confidence_avg,
                        RInt(cfg.min_confidence_avg))
                /\ RLeq(track_stats[t].confidence_std_sq,
                        RInt(cfg.max_confidence_std * cfg.max_confidence_std))
                /\ RGeq(track_stats[t].bbox_consistency,
                        cfg.min_bbox_consistency)

\* a track of three detections that meets every threshold is admitted
C1_Witness ==
    /\ Gated
    /\ \E t \in valid_tracks :
          /\ track_stats[t].num_detections = 3
          /\ track_stats[t].bbox_consistency # <<1, 1>>

\* each threshold alone can decide: tracks rejected by one criterion only
C1_OnlyCountFails ==
    Gated /\ \E t \in DOMAIN track_stats :
        /\ track_stats[t].num_detections < cfg.min_detections_per_track
        /\ track_stats[t].duration >= cfg.min_track_duration
        /\ PassesFilteringCriteria(
               [track_stats[t] EXCEPT !.num_detections = 3])
C1_OnlyDurationFails ==
    Gated /\ \E t \in DOMAIN track_stats :
        /\ track_stats[t].duration < cfg.min_track_duration
        /\ PassesFilteringCriteria([track_stats[t] EXCEPT !.duration = 30])
C1_OnlyConfidenceFails ==
    Gated /\ \E t \in DOMAIN track_stats :
        /\ RLt(track_stats[t].confidence_avg, RInt(cfg.min_confidence_avg))
        /\ PassesFilteringCriteria(
               [track_stats[t] EXCEPT !.confidence_avg = <<90, 1>>])
C1_OnlyDeviationFails ==
    Gated /\ \E t \in DOMAIN track_stats :
        /\ t \notin valid_tracks
        /\ PassesFilteringCriteriaNoStd(track_stats[t])
C1_OnlyConsistencyFails ==
    Gated /\ \E t \in DOMAIN track_stats :
        /\ RLt(track_stats[t].bbox_consistency, cfg.min_bbox_consistency)
        /\ PassesFilteringCriteria(
               [track_stats[t] EXCEPT !.bbox_consistency = <<1, 1>>])

(***************************************************************************)
(* Gate and selector: runs of up to MaxSelDet detections over two tracks   *)
(* under the thresholds of the integration test, with crop files that are  *)
(* missing, undecodable or images of two quality levels.                   *)
(***************************************************************************)
MaxSelDet == 4

SelectTracks == {1, 2}
SelectImages == {MissingFile, CorruptFile, GoodImage, BetterImage}

InitSelect ==
    /\ pc = "detection"
    /\ cfg = TestConfig
    /\ Empty

DetectForSelect ==
    \E t \in SelectTracks, im \in SelectImages :
        DetectObject(MaxSelDet, 15, t, 90, BoxA, im)

NextSelect == DetectForSelect \/ GateProcess \/ SelectProcess

SpecSelect == InitSelect /\ [][NextSelect]_vars

Selected == pc \notin {"detection", "intra_track_filter"}

CropsOfTrack(crops, t) ==
    LET IsOfTrack(crop) == crop.track_id = t
    IN  SelectSeq(crops, IsOfTrack)

LoadableCropsOfTrack(crops, t) == SelectSeq(CropsOfTrack(crops, t), Loadable)

Representatives(t) ==
    {i \in DOMAIN selected_crops : selected_crops[i].track_id = t}

\* C3: after the selector has run, every input track with at least one
\* loadable crop has exactly one representative in selected_crops, and no
\* track has more than one.
C3_OneRepresentativePerTrack ==
    Selected =>
        /\ \A t \in TrackIdsOf(filtered_crops) :
              LoadableCropsOfTrack(filtered_crops, t) # <<>>
                  => Cardinality(Representatives(t)) = 1
        /\ \A t \in TrackIdsOf(filtered_crops) \cup TrackIdsOf(selected_crops) :
              Cardinality(Representatives(t)) <= 1

\* two tracks with loadable crops, one of them with several, each represented
C3_Witness ==
    /\ Selected
    /\ Len(selected_crops) = 2
    /\ \E t \in TrackIdsOf(filtered_crops) :
          Len(LoadableCropsOfTrack(filtered_crops, t)) >= 2

\* C4: a track none of whose crops is loadable has no representative in the
\* selector's output, whether it has one crop or several.
C4_UnloadableTrackOmitted ==
    Selected =>
        \A t \in TrackIdsOf(filtered_crops) :
            LoadableCropsOfTrack(filtered_crops, t) = <<>>
                => Representatives(t) = {}

\* C4 restricted to the tracks that reach the selector with several crops
C4_UnloadableTrackOfSeveralOmitted ==
    Selected =>
        \A t \in TrackIdsOf(filtered_crops) :
            /\ LoadableCropsOfTrack(filtered_crops, t) = <<>>
            /\ Len(CropsOfTrack(filtered_crops, t)) >= 2
            => Representatives(t) = {}

C4_SeveralUnloadableReached ==
    /\ Selected
    /\ \E t \in TrackIdsOf(filtered_crops) :
          /\ LoadableCropsOfTrack(filtered_crops, t) = <<>>
          /\ Len(CropsOfTrack(filtered_crops, t)) >= 2

CompositeOf(crop) ==
    CalculateCompositeScore(crop, CalculateImageQualityScore(crop),
                            crop.img.width, crop.img.height)

\* C5: for a track with several loadable crops the representative is a
\* loadable crop of the track whose composite score no other loadable crop
\* of the track exceeds, and every loadable crop that precedes it in the
\* input has a strictly smaller composite score.
C5_MaximalFirstEncountered ==
    Selected =>
        \A i \in DOMAIN selected_crops :
            LET rep == selected_crops[i]
                cands == LoadableCropsOfTrack(filtered_crops, rep.track_id)
            IN  Len(cands) >= 2 =>
                  \E k \in DOMAIN cands :
                      /\ cands[k].filename = rep.filename
                      /\ rep.composite_score = CompositeOf(cands[k])
                      /\ \A j \in DOMAIN cands :
                             RLeq(CompositeOf(cands[j]), rep.composite_score)
                      /\ \A j \in 1..(k - 1) :
                             RLt(CompositeOf(cands[j]), rep.composite_score)

\* a track whose best score is shared by two crops, and a track whose best
\* crop is not its first
C5_Witness ==
    /\ Selected
    /\ \E i \in DOMAIN selected_crops :
          LET cands == LoadableCropsOfTrack(filtered_crops,
                                            selected_crops[i].track_id)
          IN  /\ Len(cands) >= 2
              /\ \E j, k \in DOMAIN cands :
                    /\ j < k
                    /\ CompositeOf(cands[j]) = CompositeOf(cands[k])
                    /\ cands[j].filename = selected_crops[i].filename
    /\ \E i \in DOMAIN selected_crops :
          LET cands == LoadableCropsOfTrack(filtered_crops,
                                            selected_crops[i].track_id)
          IN  /\ Len(cands) >= 2
              /\ cands[1].filename # selected_crops[i].filename

(***************************************************************************)
(* Gate, selector and deduplicator: runs of up to MaxSimDet detections     *)
(* under thresholds that admit a track on a single detection.  The tracker *)
(* numbers tracks in order of appearance.  A detection is near the first   *)
(* box and recent, far away, or near and a second later.                   *)
(***************************************************************************)
MaxSimDet == 3

SnapshotConfig ==
    [DefaultConfig EXCEPT !.min_detections_per_track = 1,
                          !.min_track_duration = 0]

SimPlaces == {<<1, BoxA>>, <<1, BoxC>>, <<31, BoxA>>}
SimImages == {GoodImage, BetterImage}

NextTrackId == Cardinality(TrackIdsOf(detections)) + 1

InitSim ==
    /\ pc = "detection"
    /\ cfg = SnapshotConfig
    /\ Empty

DetectForSim ==
    \E t \in 1..NextTrackId, place \in SimPlaces, im \in SimImages :
        DetectObject(MaxSimDet, place[1], t, 90, place[2], im)

NextSim == DetectForSim \/ GateProcess \/ SelectProcess \/ Dedup

SpecSim == InitSim /\ [][NextSim]_vars

Deduped == pc \notin {"detection", "intra_track_filter", "similarity_detection"}

IndexOfCrop(crop) ==
    CHOOSE i \in DOMAIN selected_crops :
        selected_crops[i].filename = crop.filename

DuplicatePair(i, j) ==
    /\ selected_crops[i].track_id # selected_crops[j].track_id
    /\ ~(cfg.use_spatial_constraint
            /\ SpatiallyTooFar(selected_crops[i], selected_crops[j]))
    /\ CalculateTemporalDistance(selected_crops[i], selected_crops[j])
           <= cfg.temporal_distance_threshold
    /\ similarity_matrix[i][j] >= cfg.threshold

\* C6: after the deduplicator has run, no two crops of unique_crops that
\* come from different tracks are comparable and have a cosine similarity
\* of at least the threshold.
C6_NoDuplicatePairSurvives ==
    Deduped =>
        \A a, b \in DOMAIN unique_crops :
            a # b => ~DuplicatePair(IndexOfCrop(unique_crops[a]),
                                    IndexOfCrop(unique_crops[b]))

\* C7: no duplicate group contains two crops with the same track_id.
C7_GroupMembersFromDistinctTracks ==
    Deduped =>
        \A g \in DOMAIN similar_groups :
            \A a, b \in DOMAIN similar_groups[g].indices :
                a # b =>
                    selected_crops[similar_groups[g].indices[a]].track_id
                      # selected_crops[similar_groups[g].indices[b]].track_id

\* a group of three crops, two of which were never compared with each other
C7_Witness ==
    /\ Deduped
    /\ \E g \in DOMAIN similar_groups : similar_groups[g].size = 3

UniqueIndices == {IndexOfCrop(unique_crops[k]) : k \in DOMAIN unique_crops}

\* C8: every recorded group has exactly one survivor in unique_crops, a
\* member whose combined score 0.5 q + 0.3 composite + 0.2 confidence no
\* member exceeds; every other member is absent from unique_crops and is
\* recorded as removed with its similarity to the survivor; and two
\* comparable crops of different tracks with a similarity of at least the
\* threshold end as one group of size two with one survivor.
C8_OneBestSurvivorPerGroup ==
    Deduped =>
        /\ \A g \in DOMAIN similar_groups :
              LET grp == similar_groups[g]
                  members == SeqRange(grp.indices)
                  NotBest(idx) == idx # grp.selected_index
                  others == SelectSeq(grp.indices, NotBest)
              IN  /\ members \cap UniqueIndices = {grp.selected_index}
                  /\ grp.selected_index \in members
                  /\ \A m \in members :
                         RLeq(CombinedScore(selected_crops[m]),
                              CombinedScore(selected_crops[grp.selected_index]))
                  /\ Len(grp.removed_track_ids) = Len(others)
                  /\ Len(grp.similarity_scores) = Len(others)
                  /\ \A k \in DOMAIN others :
                         /\ grp.removed_track_ids[k]
                                = selected_crops[others[k]].track_id
                         /\ grp.similarity_scores[k]
                                = similarity_matrix[grp.selected_index][others[k]]
        /\ (Len(selected_crops) = 2 /\ DuplicatePair(1, 2)) =>
              /\ Len(similar_groups) = 1
              /\ similar_groups[1].size = 2
              /\ Len(unique_crops) = 1

\* a group whose survivor is not its seed, and a run of two duplicate crops
C8_Witness ==
    /\ Deduped
    /\ Len(selected_crops) = 2
    /\ DuplicatePair(1, 2)
    /\ similar_groups[1].selected_index = 2

(***************************************************************************)
(* The quality stage behind the first four stages, under every combination *)
(* of its five enable flags and over crops whose five metrics each fall    *)
(* on either side of their threshold.                                      *)
(***************************************************************************)
MaxQualityDet == 1

QualityConfigs ==
    {[SnapshotConfig EXCEPT !.enable_clip_quality = f[1],
                            !.enable_blur_detection = f[2],
                            !.enable_brightness_check = f[3],
                            !.enable_contrast_check = f[4],
                            !.enable_resolution_check = f[5]] :
        f \in [1..5 -> BOOLEAN]}

QualityImages ==
    {Image(q, bl, br, c, w, 100) :
        q \in {10, 90}, bl \in {10, 120}, br \in {10, 128, 250},
        c \in {5, 40}, w \in {50, 100}} \cup {CorruptFile}

InitQuality ==
    /\ pc = "detection"
    /\ cfg \in QualityConfigs
    /\ Empty

DetectForQuality ==
    \E t \in 1..NextTrackId, im \in QualityImages :
        DetectObject(MaxQualityDet, 1, t, 90, BoxA, im)

NextQuality ==
    DetectForQuality \/ GateProcess \/ SelectProcess \/ Dedup \/ QualityProcess

SpecQuality == InitQuality /\ [][NextQuality]_vars

Assessed == pc \in {"final_validation", "done"}

\* what the five thresholds say of the image itself
ClipCheckPasses(img) == img.quality >= cfg.min_quality_score
BlurCheckPasses(img) == img.blur >= cfg.max_blur_variance
BrightnessCheckPasses(img) ==
    cfg.min_brightness <= img.brightness /\ img.brightness <= cfg.max_brightness
ContrastCheckPasses(img) == img.contrast >= cfg.min_contrast_std
ResolutionCheckPasses(img) ==
    img.width >= cfg.min_resolution[1] /\ img.height >= cfg.min_resolution[2]

AllEnabledChecksPass(img) ==
    /\ cfg.enable_clip_quality => ClipCheckPasses(img)
    /\ cfg.enable_blur_detection => BlurCheckPasses(img)
    /\ cfg.enable_brightness_check => BrightnessCheckPasses(img)
    /\ cfg.enable_contrast_check => ContrastCheckPasses(img)
    /\ cfg.enable_resolution_check => ResolutionCheckPasses(img)

\* C9: a crop that loads is assessed valid if and only if every enabled
\* check passes on it; a disabled check never rejects, and one failing
\* enabled check rejects whatever the other metrics are.
C9_ValidIffAllEnabledChecksPass ==
    Assessed =>
        \A i \in DOMAIN unique_crops :
            LET crop == unique_crops[i]
            IN  ImreadOk(crop) =>
                    (quality_assessments[crop.track_id].valid
                        <=> AllEnabledChecksPass(crop.img))

\* a crop is valid although it fails a check, that check being disabled,
\* while an enabled check passes on it
C9_Witness ==
    /\ Assessed
    /\ \E i \in DOMAIN unique_crops :
           LET crop == unique_crops[i]
           IN  /\ ImreadOk(crop)
               /\ quality_assessments[crop.track_id].valid
               /\ ~cfg.enable_blur_detection
               /\ ~BlurCheckPasses(crop.img)
               /\ cfg.enable_contrast_check

\* a crop is rejected by exactly one failing enabled check
C9_OneFailingCheckRejects ==
    /\ Assessed
    /\ \E i \in DOMAIN unique_crops :
           LET crop == unique_crops[i]
           IN  /\ ImreadOk(crop)
               /\ ~quality_assessments[crop.track_id].valid
               /\ cfg.enable_brightness_check
               /\ ~BrightnessCheckPasses(crop.img)
               /\ ClipCheckPasses(crop.img)
               /\ BlurCheckPasses(crop.img)
               /\ ContrastCheckPasses(crop.img)
               /\ ResolutionCheckPasses(crop.img)

(***************************************************************************)
(* The pipeline: the six stages in order on the detections of one run.     *)
(***************************************************************************)
PipeConfigs ==
    {[SnapshotConfig EXCEPT !.api_endpoint = TRUE,
                            !.enable_parallel = par] : par \in BOOLEAN}

PipeImages == {MissingFile, CorruptFile, GoodImage, BlurryImage}

\* the confidence and the crop file of a tracked detection: a confident
\* detection with any of the files, or a doubtful one with a good file
PipeObservations == {<<90, im>> : im \in PipeImages} \cup {<<20, GoodImage>>}

\* the track ids the tracker hands out in a run
PipeTracks == {1, 2, 3}

Init ==
    /\ pc = "detection"
    /\ cfg \in PipeConfigs
    /\ Empty

Detect ==
    \/ \E t \in PipeTracks, obs \in PipeObservations :
           /\ t <= NextTrackId
           /\ DetectObject(MaxPipeDet, 1, t, obs[1], BoxA, obs[2])
    \/ DetectObject(MaxPipeDet, 1, None, 90, BoxA, GoodImage)

Next ==
    \/ Detect
    \/ GateProcess
    \/ SelectProcess
    \/ Dedup
    \/ QualityProcess
    \/ Validate

Spec == Init /\ [][Next]_vars

AllTrackIds(records) == {records[i].track_id : i \in DOMAIN records}

\* C2: the crops a stage outputs carry non-null track ids that belong to the
\* admitted tracks, a detection without track id contributes to no track,
\* each stage's track ids are among those of the stage before it, and the
\* accepted crops are never more than the admitted tracks.
C2_OutputsWithinAdmittedTracks ==
    /\ None \notin DOMAIN track_stats
    /\ None \notin valid_tracks
    /\ valid_tracks \subseteq DOMAIN track_stats
    /\ AllTrackIds(filtered_crops) \subseteq valid_tracks
    /\ AllTrackIds(selected_crops) \subseteq AllTrackIds(filtered_crops)
    /\ AllTrackIds(unique_crops) \subseteq AllTrackIds(selected_crops)
    /\ AllTrackIds(high_quality_crops) \subseteq AllTrackIds(unique_crops)
    /\ AllTrackIds(validated_crops) \subseteq AllTrackIds(high_quality_crops)
    /\ Len(validated_crops) <= Cardinality(valid_tracks)

\* a finished run with an untracked detection, a rejected track and an
\* accepted crop
C2_Witness ==
    /\ pc = "done"
    /\ \E i \in DOMAIN detections : detections[i].track_id = None
    /\ DOMAIN track_stats \ valid_tracks # {}
    /\ validated_crops # <<>>

MaxContrastDet == 2

ContrastThresholds == {15, 50}

ContrastConfigs ==
    {[SnapshotConfig EXCEPT !.enable_contrast_check = en,
                            !.min_contrast_std = m] :
        en \in BOOLEAN, m \in ContrastThresholds}

ContrastImages ==
    {Image(80, 120, 128, c, 100, 100) : c \in {5, 15, 40, 60}}
        \cup {BlurryImage}

InitContrast ==
    /\ pc = "detection"
    /\ cfg \in ContrastConfigs
    /\ Empty

DetectForContrast ==
    \E t \in 1..NextTrackId, im \in ContrastImages :
        DetectObject(MaxContrastDet, 1, t, 90, BoxA, im)

ReassessWithThreshold ==
    \E m \in ContrastThresholds \cup {10} : ReassessQuality(m)

NextContrast ==
    \/ DetectForContrast
    \/ GateProcess
    \/ SelectProcess
    \/ Dedup
    \/ QualityProcess
    \/ ReassessWithThreshold

SpecContrast == InitContrast /\ [][NextContrast]_vars

FilenamesOf(crops) == {crops[i].filename : i \in DOMAIN crops}

\* C11: when the quality stage runs again on the same crops with a
\* min_contrast_std at least as high and every other setting unchanged,
\* every crop that passes the second run passed the first.
C11_RaisingContrastNeverAdds ==
    \A k \in DOMAIN previous_run :
        LET first == previous_run[k]
        IN  (/\ cfg = [first.cfg EXCEPT
                          !.min_contrast_std = cfg.min_contrast_std]
             /\ cfg.min_contrast_std >= first.cfg.min_contrast_std)
            => FilenamesOf(high_quality_crops)
                   \subseteq FilenamesOf(first.high_quality_crops)

\* the threshold was raised with the check enabled, one crop that passed is
\* now rejected and another still passes
C11_Witness ==
    /\ previous_run # <<>>
    /\ cfg.enable_contrast_check
    /\ cfg.min_contrast_std > previous_run[1].cfg.min_contrast_std
    /\ high_quality_crops # <<>>
    /\ FilenamesOf(high_quality_crops)
           # FilenamesOf(previous_run[1].high_quality_crops)

(***************************************************************************)
(* Stage 6 on the crops of up to MaxJudgeDet detections, against a judge   *)
(* that approves, disapproves, answers beside the point, cannot be         *)
(* reached, or sends a body without a 'response' string, for either of    *)
(* the two requests.                                                       *)
(***************************************************************************)
MaxJudgeDet == 2

\* the track ids the tracker hands out in a run
JudgeTracks == {1, 2}

ValidationScores == {40, 70}

JudgeConfigs ==
    {[SnapshotConfig EXCEPT !.api_endpoint = TRUE,
                            !.enable_parallel = par,
                            !.min_validation_score = m,
                            !.enable_plant_identification = ident] :
        par \in BOOLEAN, m \in ValidationScores, ident \in BOOLEAN}

\* what the judge opposes to the validation request
ValidationReplies ==
    {<<Ok(StrictForm(TRUE, 85))>>, <<Ok(StrictForm(TRUE, 60))>>,
     <<Ok(StrictForm(FALSE, 85))>>, <<Ok(T_maybe)>>,
     <<NetworkFailure>>, <<Malformed>>}

\* what it opposes to the identification request of a crop it approved
IdentificationReplies ==
    {<<Ok(T_json_oak)>>, <<Ok(T_oak)>>, <<Ok(<<"{", "}">>)>>,
     <<NetworkFailure>>, <<Malformed>>}

RichReplies ==
    {[validation |-> v, identification |-> <<Ok(T_json_oak)>>] :
        v \in ValidationReplies}
    \cup {[validation |-> <<Ok(StrictForm(TRUE, 85))>>, identification |-> d] :
             d \in IdentificationReplies}

InitJudge ==
    /\ pc = "detection"
    /\ cfg \in JudgeConfigs
    /\ Empty

DetectForJudge ==
    \E t \in JudgeTracks :
        /\ t <= NextTrackId
        /\ DetectObject(MaxJudgeDet, 1, t, 90, BoxA, GoodImage)

ValidateWithJudge ==
    /\ pc = "final_validation"
    /\ \E replies \in [DOMAIN high_quality_crops -> RichReplies] :
           ValidateAgainst(replies)

NextJudge ==
    \/ DetectForJudge
    \/ GateProcess
    \/ SelectProcess
    \/ Dedup
    \/ QualityProcess
    \/ ValidateWithJudge

SpecJudge == InitJudge /\ [][NextJudge]_vars

IsAccepted(track_id) ==
    \E k \in DOMAIN validated_crops : validated_crops[k].track_id = track_id

\* the judge's answer to the validation request passes the threshold
PassesValidation(reply) ==
    LET first == reply.validation[1]
        parsed == ParseValidationResponse(Strip(first.text))
    IN  /\ first.kind = "ok"
        /\ parsed.parsed
        /\ parsed.answer
        /\ parsed.score >= cfg.min_validation_score

MaxRerunDet == 2

\* the track ids the tracker hands out in a run
RerunTracks == {1, 2}

RerunConfigs ==
    {[SnapshotConfig EXCEPT !.api_endpoint = TRUE,
                            !.enable_parallel = par,
                            !.min_validation_score = m] :
        par \in BOOLEAN, m \in ValidationScores}

RerunReplies ==
    {Reply(TRUE, 85), Reply(TRUE, 60), Reply(FALSE, 85), RequestFailed,
     [validation |-> <<Malformed>>, identification |-> <<Ok(T_json_oak)>>]}

InitRerun ==
    /\ pc = "detection"
    /\ cfg \in RerunConfigs
    /\ Empty

DetectForRerun ==
    \E t \in RerunTracks :
        /\ t <= NextTrackId
        /\ DetectObject(MaxRerunDet, 1, t, 90, BoxA, GoodImage)

ValidateFirst ==
    /\ pc = "final_validation"
    /\ previous_run = <<>>
    /\ \E replies \in [DOMAIN high_quality_crops -> RerunReplies] :
           ValidateAgainst(replies)

ReconfigureScore ==
    \E m \in ValidationScores \cup {50} :
        Reconfigure([cfg EXCEPT !.min_validation_score = m])

ReconfigureMode ==
    Reconfigure([cfg EXCEPT !.enable_parallel = ~cfg.enable_parallel])

NextRerun ==
    \/ DetectForRerun
    \/ GateProcess
    \/ SelectProcess
    \/ Dedup
    \/ QualityProcess
    \/ ValidateFirst
    \/ ReconfigureScore
    \/ ReconfigureMode
    \/ Revalidate

SpecRerun == InitRerun /\ [][NextRerun]_vars

MaxParseDet == 1

ParseConfigs ==
    {[SnapshotConfig EXCEPT !.api_endpoint = TRUE,
                            !.min_validation_score = m,
                            !.enable_plant_identification = ident] :
        m \in ValidationScores, ident \in BOOLEAN}

InitParse ==
    /\ pc = "detection"
    /\ cfg \in ParseConfigs
    /\ Empty

DetectForParse == DetectObject(MaxParseDet, 1, 1, 90, BoxA, GoodImage)

ValidateText ==
    /\ pc = "final_validation"
    /\ \E replies \in [DOMAIN high_quality_crops ->
                          {[validation |-> <<Ok(t)>>,
                            identification |-> <<Ok(T_json_oak)>>] :
                               t \in ParseTexts}] :
           ValidateAgainst(replies)

NextParse ==
    \/ DetectForParse
    \/ GateProcess
    \/ SelectProcess
    \/ Dedup
    \/ QualityProcess
    \/ ValidateText

SpecParse == InitParse /\ [][NextParse]_vars

\* the result the stage recorded for the response text, if it did
ParsedAs(text, answer, score) ==
    \A t \in DOMAIN validation_results :
        LET result == validation_results[t]
        IN  judge # <<>> /\ Strip(judge[1].validation[1].text) = text =>
                /\ result.has_answer
                /\ result.validation_answer = answer
                /\ result.validation_score = score

HasDigit(text) == \E i \in DOMAIN text : IsDigit(text[i])

\* C14, first half: a response 'answer: yes, score: N' or 'answer: no,
\* score: N' is parsed to (True, N) or (False, N).
C14_StrictFormParses ==
    \A a \in BOOLEAN, n \in StrictScores : ParsedAs(StrictForm(a, n), a, n)

\* C14: a response of the form 'answer: <yes|no>, score: <N>' is parsed to
\* (True|False, N), and a response that begins with 'yes' or 'no' and
\* contains no digit is parsed to that answer with score 50.
C14_ParsesStrictAndLeadingForms ==
    /\ C14_StrictFormParses
    /\ \A text \in {Strip(t) : t \in ParseTexts} :
           /\ StartsWith(Lower(text), T_yes) /\ ~HasDigit(text)
                  => ParsedAs(text, TRUE, DefaultScore)
           /\ StartsWith(Lower(text), T_no) /\ ~HasDigit(text)
                  => ParsedAs(text, FALSE, DefaultScore)

\* 'answer: yes, score: 85' was parsed to (True, 85) and accepted
C14_StrictWitness ==
    /\ pc = "done"
    /\ judge # <<>>
    /\ judge[1].validation = <<Ok(StrictForm(TRUE, 85))>>
    /\ validated_crops # <<>>
    /\ validated_crops[1].validation_result.validation_score = 85

\* 'no way' was parsed to (False, 50)
C14_NoWayWitness ==
    /\ pc = "done"
    /\ judge # <<>>
    /\ judge[1].validation = <<Ok(T_no \o <<" ", "w", "a", "y">>)>>
    /\ \E t \in DOMAIN validation_results :
           /\ validation_results[t].has_answer
           /\ ~validation_results[t].validation_answer
           /\ validation_results[t].validation_score = DefaultScore

\* C15: every validation result built from a judge response has a score
\* between 0 and 100, whatever numbers the response contains.
C15_ScoreWithinRange ==
    \A t \in DOMAIN validation_results :
        validation_results[t].has_answer =>
            validation_results[t].validation_score \in 0..100

\* the scores of the results are natural numbers
C15_ScoreIsNatural ==
    \A t \in DOMAIN validation_results :
        validation_results[t].validation_score \in Nat

\* in a completed run, a crop that passed validation and whose
\* identification came to one of the given replies is accepted, with its
\* validation result, and has no plant identification
KeptWithoutIdentification(replies) ==
    pc = "done" =>
        \A i \in DOMAIN judge :
            LET t == high_quality_crops[i].track_id
            IN  (/\ PassesValidation(judge[i])
                 /\ cfg.enable_plant_identification
                 /\ judge[i].identification \in replies)
                => /\ IsAccepted(t)
                   /\ t \in DOMAIN validation_results
                   /\ validation_results[t].validation_passed
                   /\ validation_results[t].plant_identification = <<>>
                   /\ t \notin DOMAIN plant_identifications

\* C16: once a crop has passed validation, a failure of the identification
\* step (the request fails after all retries, or the reply cannot be
\* parsed) never changes validation_passed: the crop stays accepted,
\* without a plant identification.
C16_IdentificationFailureKeepsAcceptance ==
    KeptWithoutIdentification(IdentificationReplies \ {<<Ok(T_json_oak)>>})

\* the same for the failures that _validate_single_image sees: the request
\* returns None after its retries, or the response text holds no JSON
\* object, or an empty one
C16_FailureSeenKeepsAcceptance ==
    KeptWithoutIdentification(
        {<<NetworkFailure>>, <<Ok(T_oak)>>, <<Ok(<<"{", "}">>)>>})

\* an accepted crop whose identification request failed after its retries
C16_FailureSeenWitness ==
    /\ pc = "done"
    /\ \E i \in DOMAIN judge :
           /\ judge[i].identification = <<NetworkFailure>>
           /\ cfg.enable_plant_identification
           /\ IsAccepted(high_quality_crops[i].track_id)
           /\ validation_results[high_quality_crops[i].track_id]
                  .identification_error

\* the second run is over, and it differed from the first in the mode only
OtherModeOf(first) ==
    /\ pc \in {"done", "failed"}
    /\ cfg = [first.cfg EXCEPT
                  !.enable_parallel = ~first.cfg.enable_parallel]

\* the accepted crops with their results, the per-track validation results
\* and the identifications are those of the first run
SameResultSet(first) ==
    /\ {[filename |-> validated_crops[k].filename,
         result |-> validated_crops[k].validation_result] :
            k \in DOMAIN validated_crops}
       = {[filename |-> first.validated_crops[k].filename,
           result |-> first.validated_crops[k].validation_result] :
              k \in DOMAIN first.validated_crops}
    /\ validation_results = first.validation_results
    /\ plant_identifications = first.plant_identifications

\* C17: for the same crops and the same judge response per crop, the
\* sequential and the parallel mode produce the same accepted crops, the
\* same per-track validation results and the same identifications, up to
\* order, whatever the completion order of the workers.
C17_ModesProduceSameResults ==
    \A k \in DOMAIN previous_run :
        OtherModeOf(previous_run[k]) => SameResultSet(previous_run[k])

\* the same when no request of the run raises
C17_SameResultsWhenRequestsReturn ==
    \A k \in DOMAIN previous_run :
        (/\ OtherModeOf(previous_run[k])
         /\ \A i \in DOMAIN judge : judge[i].validation # <<Malformed>>)
        => SameResultSet(previous_run[k])

\* two crops, one accepted and one not, validated in both modes with the
\* same results
C17_ReturnWitness ==
    /\ previous_run # <<>>
    /\ OtherModeOf(previous_run[1])
    /\ pc = "done"
    /\ Len(high_quality_crops) = 2
    /\ Len(validated_crops) = 1
    /\ SameResultSet(previous_run[1])

\* neither request the stage makes for the crop raises
RequestsReturn(reply) ==
    /\ reply.validation # <<Malformed>>
    /\ (PassesValidation(reply) /\ cfg.enable_plant_identification)
           => reply.identification # <<Malformed>>

\* the stage has run on at least one crop
Validated == judge # <<>> /\ pc \in {"done", "failed"}

\* C19: whatever the judge's outcomes and in both modes, the validation
\* stage ends having handled every input crop once: a failure or an
\* exception on one crop does not keep the other crops from being
\* processed, and in parallel mode the completion counter ends at the
\* number of input crops.
C19_EveryCropHandled ==
    Validated =>
        /\ pc = "done"
        /\ \A i \in DOMAIN judge :
               RequestsReturn(judge[i]) =>
                   high_quality_crops[i].track_id \in DOMAIN validation_results
        /\ UsesParallel(high_quality_crops)
               => completed = Len(high_quality_crops)

\* the same of the parallel mode alone
C19_ParallelHandlesEveryCrop ==
    (Validated /\ UsesParallel(high_quality_crops)) =>
        /\ pc = "done"
        /\ \A i \in DOMAIN judge :
               RequestsReturn(judge[i]) <=>
                   high_quality_crops[i].track_id \in DOMAIN validation_results
        /\ completed = Len(high_quality_crops)

\* a parallel run in which the request of one crop raised and the other
\* crop was accepted
C19_ParallelWitness ==
    /\ Validated
    /\ UsesParallel(high_quality_crops)
    /\ \E i \in DOMAIN judge : ~RequestsReturn(judge[i])
    /\ validated_crops # <<>>
    /\ completed = 2

(***************************************************************************)
(* Stage 6 step by step: every requests.post, every backoff and every      *)
(* read and write of a counter of api_stats is a step of the thread that   *)
(* validates the crop; the main thread submits the crops, takes the        *)
(* futures as they complete and aggregates.  In sequential mode the main   *)
(* thread validates the crops itself, one after the other.                 *)
(***************************************************************************)
MaxWorkerDet == 2

WorkerTracks == {1, 2}

RetryAttempts == {2, 3}

PoolSizes == {1, 22}

WorkerConfigs ==
    {[SnapshotConfig EXCEPT !.api_endpoint = TRUE,
                            !.enable_parallel = par,
                            !.retry_attempts = r,
                            !.max_workers = n,
                            !.min_validation_score = 70,
                            !.enable_plant_identification = TRUE] :
        par \in BOOLEAN, r \in RetryAttempts, n \in PoolSizes}

\* the judge approves, disapproves, cannot be reached, can be reached at
\* the second attempt only, or sends a body without a 'response' string
WorkerReplies ==
    {Reply(TRUE, 85), Reply(FALSE, 85), RequestFailed,
     [validation |-> <<NetworkFailure, Ok(StrictForm(TRUE, 85))>>,
      identification |-> <<Ok(T_json_oak)>>],
     [validation |-> <<Malformed>>, identification |-> <<Ok(T_json_oak)>>]}

\* a crop's validation before it is started; posts, identification_posts
\* and sleeps count the calls of requests.post and of time.sleep(1)
Queued ==
    [state |-> "queued", request |-> "validation", at |-> "count",
     attempt |-> 1, read |-> 0, posts |-> 0, identification_posts |-> 0,
     sleeps |-> 0]

\* for attempt in range(self.retry_attempts), as a loop that lets the
\* attempts run one further
MayRetryOnceMore(attempt) == attempt <= cfg.retry_attempts

\* for attempt in range(self.retry_attempts): there is a next attempt
MayRetry(attempt) == attempt < cfg.retry_attempts

\* if attempt < self.retry_attempts - 1, the attempts counted from one
BackoffDue(attempt) == attempt < cfg.retry_attempts

\* the loop goes to its next attempt, or ends and the request has failed
NextAttempt(w) ==
    IF MayRetry(w.attempt)
    THEN [w EXCEPT !.attempt = w.attempt + 1, !.at = "count"]
    ELSE [w EXCEPT !.at = "failed"]

\* _make_api_request returns: the identification request follows an
\* accepted validation, anything else ends _validate_single_image
AfterRequest(w, i) ==
    IF /\ w.request = "validation"
       /\ RequestsOf(high_quality_crops[i], judge[i]).requests = 2
    THEN [w EXCEPT !.request = "identification", !.attempt = 1,
                   !.at = "count"]
    ELSE [w EXCEPT !.state = "returned", !.at = "end"]

Running == {i \in DOMAIN workers : workers[i].state = "running"}

worker_frame ==
    <<cfg, stage1_vars, stage2_vars, stage3_vars, stage4_vars, stage5_vars,
      judge, run_vars>>

aggregate_vars ==
    <<validation_results, validated_crops, plant_identifications, summary,
      completed>>

InitWorkers ==
    /\ pc = "detection"
    /\ cfg \in WorkerConfigs
    /\ Empty

DetectForWorkers ==
    \E t \in WorkerTracks :
        /\ t <= NextTrackId
        /\ DetectObject(MaxWorkerDet, 1, t, 90, BoxA, GoodImage)

\* process() is entered; executor.submit queues every crop
Submit ==
    /\ pc = "final_validation"
    /\ high_quality_crops # <<>>
    /\ \E replies \in [DOMAIN high_quality_crops -> WorkerReplies] :
           judge' = replies
    /\ workers' = [i \in DOMAIN high_quality_crops |-> Queued]
    /\ pc' = "validating"
    /\ UNCHANGED <<cfg, stage1_vars, stage2_vars, stage3_vars, stage4_vars,
                   stage5_vars, run_vars, aggregate_vars, api_stats>>

\* a thread of the pool takes the next crop of the queue; the sequential
\* loop comes to its next crop when it is through with the one before
StartWorker(i) ==
    /\ pc = "validating"
    /\ workers[i].state = "queued"
    /\ \A j \in 1..(i - 1) : workers[j].state # "queued"
    /\ IF UsesParallel(high_quality_crops)
       THEN Cardinality(Running) < cfg.max_workers
       ELSE \A j \in 1..(i - 1) : workers[j].state = "collected"
    /\ workers' = [workers EXCEPT ![i].state = "running"]
    /\ UNCHANGED <<pc, worker_frame, aggregate_vars, api_stats>>

\* self.api_stats['total_calls'] += 1: the counter is read
ReadTotalCalls(i) ==
    /\ pc = "validating"
    /\ workers[i].state = "running"
    /\ workers[i].at = "count"
    /\ workers' = [workers EXCEPT ![i].read = api_stats.total_calls,
                                  ![i].at = "store"]
    /\ UNCHANGED <<pc, worker_frame, aggregate_vars, api_stats>>

\* self.api_stats['total_calls'] += 1: what was read, plus one, is stored
WriteTotalCalls(i) ==
    /\ pc = "validating"
    /\ workers[i].state = "running"
    /\ workers[i].at = "store"
    /\ api_stats' = [api_stats EXCEPT !.total_calls = workers[i].read + 1]
    /\ workers' = [workers EXCEPT ![i].at = "post"]
    /\ UNCHANGED <<pc, worker_frame, aggregate_vars>>

\* requests.post and what the attempt comes to
Post(i) ==
    /\ pc = "validating"
    /\ workers[i].state = "running"
    /\ workers[i].at = "post"
    /\ LET w == workers[i]
           posted == IF w.request = "validation"
                     THEN [w EXCEPT !.posts = w.posts + 1]
                     ELSE [w EXCEPT !.identification_posts =
                                        w.identification_posts + 1]
           outcome == OutcomeAt(judge[i][w.request], w.attempt)
       IN  workers' = [workers EXCEPT ![i] =
               IF outcome.kind = "ok" THEN [posted EXCEPT !.at = "success"]
               ELSE IF outcome.kind = "malformed"
                   THEN [posted EXCEPT !.state = "raised", !.at = "end"]
               ELSE IF outcome.kind = "network" /\ BackoffDue(w.attempt)
                   THEN [posted EXCEPT !.at = "sleep"]
               ELSE NextAttempt(posted)]
    /\ UNCHANGED <<pc, worker_frame, aggregate_vars, api_stats>>

\* time.sleep(1) before the next attempt
Backoff(i) ==
    /\ pc = "validating"
    /\ workers[i].state = "running"
    /\ workers[i].at = "sleep"
    /\ workers' = [workers EXCEPT ![i] =
           NextAttempt([@ EXCEPT !.sleeps = @ + 1])]
    /\ UNCHANGED <<pc, worker_frame, aggregate_vars, api_stats>>

OutcomeCounter(w) ==
    IF w.at \in {"success", "success_store"} THEN "successful_calls"
    ELSE "failed_calls"

\* self.api_stats['successful_calls'] += 1 and
\* self.api_stats['failed_calls'] += 1: the counter is read
ReadOutcomeCalls(i) ==
    /\ pc = "validating"
    /\ workers[i].state = "running"
    /\ workers[i].at \in {"success", "failed"}
    /\ workers' = [workers EXCEPT
           ![i].read = api_stats[OutcomeCounter(workers[i])],
           ![i].at = IF workers[i].at = "success" THEN "success_store"
                     ELSE "failed_store"]
    /\ UNCHANGED <<pc, worker_frame, aggregate_vars, api_stats>>

\* the counter is stored and _make_api_request returns
WriteOutcomeCalls(i) ==
    /\ pc = "validating"
    /\ workers[i].state = "running"
    /\ workers[i].at \in {"success_store", "failed_store"}
    /\ api_stats' = [api_stats EXCEPT
           ![OutcomeCounter(workers[i])] = workers[i].read + 1]
    /\ workers' = [workers EXCEPT ![i] = AfterRequest(@, i)]
    /\ UNCHANGED <<pc, worker_frame, aggregate_vars>>

\* the main thread has the result of a crop: the body of the as_completed
\* loop, or the rest of the body of the sequential loop
Collect(i) ==
    /\ pc = "validating"
    /\ workers[i].state = "returned"
    /\ \E crop \in {high_quality_crops[i]} :
       \E result \in {ValidateSingleImage(crop, judge[i])} :
           /\ validation_results' =
                  (crop.track_id :> result) @@ validation_results
           /\ validated_crops' =
                  IF result.validation_passed /\ CopySucceeds(crop)
                  THEN Append(validated_crops,
                              crop @@ [validation_result |-> result])
                  ELSE validated_crops
           /\ plant_identifications' =
                  PlantIdentifications(validated_crops')
    /\ completed' = IF UsesParallel(high_quality_crops) THEN completed + 1
                    ELSE completed
    /\ workers' = [workers EXCEPT ![i].state = "collected"]
    /\ UNCHANGED <<pc, worker_frame, api_stats, summary>>

\* future.result() raises in the as_completed loop: logged and counted
CollectError(i) ==
    /\ pc = "validating"
    /\ UsesParallel(high_quality_crops)
    /\ workers[i].state = "raised"
    /\ completed' = completed + 1
    /\ workers' = [workers EXCEPT ![i].state = "collected"]
    /\ UNCHANGED <<pc, worker_frame, api_stats, validation_results,
                   validated_crops, plant_identifications, summary>>

\* the exception leaves the sequential loop and process()
Abort(i) ==
    /\ pc = "validating"
    /\ ~UsesParallel(high_quality_crops)
    /\ workers[i].state = "raised"
    /\ pc' = "failed"
    /\ validation_results' = <<>>
    /\ validated_crops' = <<>>
    /\ plant_identifications' = <<>>
    /\ UNCHANGED <<worker_frame, api_stats, completed, workers, summary>>

\* process() returns
Finish ==
    /\ pc = "validating"
    /\ \A i \in DOMAIN workers : workers[i].state = "collected"
    /\ pc' = "done"
    /\ summary' = <<GenerateSummary(validated_crops, plant_identifications)>>
    /\ UNCHANGED <<worker_frame, validation_results, validated_crops,
                   plant_identifications, completed, api_stats, workers>>

NextWorkers ==
    \/ DetectForWorkers
    \/ GateProcess
    \/ SelectProcess
    \/ Dedup
    \/ QualityProcess
    \/ Submit
    \/ \E i \in DOMAIN workers : StartWorker(i)
    \/ \E i \in DOMAIN workers : ReadTotalCalls(i)
    \/ \E i \in DOMAIN workers : WriteTotalCalls(i)
    \/ \E i \in DOMAIN workers : Post(i)
    \/ \E i \in DOMAIN workers : Backoff(i)
    \/ \E i \in DOMAIN workers : ReadOutcomeCalls(i)
    \/ \E i \in DOMAIN workers : WriteOutcomeCalls(i)
    \/ \E i \in DOMAIN workers : Collect(i)
    \/ \E i \in DOMAIN workers : CollectError(i)
    \/ \E i \in DOMAIN workers : Abort(i)
    \/ Finish

SpecWorkers == InitWorkers /\ [][NextWorkers]_vars

KeepsFailing(i) == judge[i].validation = <<NetworkFailure>>

\* C18: a crop whose validation request fails at network level at every
\* attempt is posted at most retry_attempts times, with one backoff slept
\* before every attempt after the first; when its validation has returned
\* it was posted exactly retry_attempts times with retry_attempts - 1
\* backoffs, no identification request was ever posted for it, its result
\* is the error 'API request failed' and it is not among the accepted crops
C18_NetworkFailureRetriedThenFailed ==
    \A i \in DOMAIN workers :
        KeepsFailing(i) =>
            LET w == workers[i]
                track_id == high_quality_crops[i].track_id
            IN  /\ w.posts <= cfg.retry_attempts
                /\ w.sleeps <= cfg.retry_attempts - 1
                /\ w.identification_posts = 0
                /\ w.request = "validation"
                /\ w.at = "post" => /\ w.posts = w.attempt - 1
                                    /\ w.sleeps = w.attempt - 1
                /\ w.state \in {"returned", "collected"} =>
                       /\ w.posts = cfg.retry_attempts
                       /\ w.sleeps = cfg.retry_attempts - 1
                /\ w.state # "raised"
                /\ ~IsAccepted(track_id)
                /\ (w.state = "collected" /\ pc # "failed") =>
                       /\ track_id \in DOMAIN validation_results
                       /\ validation_results[track_id].error =
                              "API request failed"
                       /\ ~validation_results[track_id].validation_passed

\* a run is over in which the judge could not be reached for one crop,
\* after three attempts, and approved the other
C18_Witness ==
    /\ pc = "done"
    /\ cfg.retry_attempts = 3
    /\ \E i \in DOMAIN workers :
           /\ KeepsFailing(i)
           /\ workers[i].posts = 3
           /\ workers[i].sleeps = 2
    /\ Len(validated_crops) = 1

PostsOfRun == SeqSum([i \in DOMAIN workers |->
                         workers[i].posts + workers[i].identification_posts])

\* C20: no update of shared state is lost in a parallel run: when a run in
\* which every request returned is over, api_stats['total_calls'] has
\* counted every request posted
C20_NoUpdateLost ==
    (/\ pc = "done"
     /\ UsesParallel(high_quality_crops)
     /\ \A i \in DOMAIN judge : RequestsReturn(judge[i])) =>
        api_stats.total_calls = PostsOfRun

\* C20, aggregation: the completion counter has counted every future the
\* main thread has taken, and the map has one key for each crop whose
\* validation returned
C20_AggregationExact ==
    (pc \in {"validating", "done"} /\ UsesParallel(high_quality_crops)) =>
        /\ completed = Cardinality({i \in DOMAIN workers :
                                       workers[i].state = "collected"})
        /\ DOMAIN validation_results =
               {high_quality_crops[i].track_id :
                   i \in {j \in DOMAIN workers :
                             /\ workers[j].state = "collected"
                             /\ ~ValidateSingleImage(high_quality_crops[j],
                                                     judge[j]).raised}}

\* C20, one thread: the sequential loop counts every request it posts
C20_SequentialCountsEveryPost ==
    (pc = "done" /\ ~UsesParallel(high_quality_crops) /\ workers # <<>>) =>
        api_stats.total_calls = PostsOfRun

\* a parallel run of two crops with a pool of 22 threads is over
C20_ParallelWitness ==
    /\ pc = "done"
    /\ UsesParallel(high_quality_crops)
    /\ cfg.max_workers = 22
    /\ completed = 2
    /\ PostsOfRun >= 2

(***************************************************************************)
(* The summary of a run of stage 6.                                        *)
(***************************************************************************)

\* the entries of the summary's plant list that stand for an accepted crop
EntriesFor(plants, crop) ==
    {i \in DOMAIN plants :
        /\ plants[i].track_id = crop.track_id
        /\ plants[i].frame_captured = crop.frame
        /\ plants[i].validation_score =
               crop.validation_result.validation_score}

RECURSIVE AcceptedScores(_)
AcceptedScores(accepted) ==
    IF accepted = <<>> THEN 0
    ELSE Head(accepted).validation_result.validation_score
         + AcceptedScores(Tail(accepted))

\* C21: the plant list of the run summary has exactly one entry for each
\* accepted crop and no other, in non-increasing order of validation_score;
\* total_plants_found is the number of accepted crops and
\* average_validation_score the mean of their scores, 0 for an empty list
C21_SummaryRanksAcceptedCrops ==
    (pc = "done" /\ summary # <<>>) =>
        LET plants == summary[1].plants
        IN  /\ Len(plants) = Len(validated_crops)
            /\ \A k \in DOMAIN validated_crops :
                   Cardinality(EntriesFor(plants, validated_crops[k])) =
                       Cardinality({j \in DOMAIN validated_crops :
                                       validated_crops[j] =
                                           validated_crops[k]})
            /\ \A i \in DOMAIN plants :
                   \E k \in DOMAIN validated_crops :
                       i \in EntriesFor(plants, validated_crops[k])
            /\ \A i, j \in DOMAIN plants :
                   i < j => plants[i].validation_score
                                >= plants[j].validation_score
            /\ summary[1].total_plants_found = Len(validated_crops)
            /\ summary[1].average_validation_score =
                   IF validated_crops = <<>> THEN <<0, 1>>
                   ELSE Rat(AcceptedScores(validated_crops),
                            Len(validated_crops))

\* a run accepted a crop with score 60 before one with score 85, and the
\* summary lists the second first
C21_Witness ==
    /\ pc = "done"
    /\ summary # <<>>
    /\ Len(validated_crops) = 2
    /\ validated_crops[1].validation_result.validation_score = 60
    /\ validated_crops[2].validation_result.validation_score = 85
    /\ summary[1].plants[1].track_id = validated_crops[2].track_id
    /\ summary[1].average_validation_score = <<145, 2>>

\* a run of stage 6 on crops of which none is accepted has a summary with
\* an empty list and the average 0
C21_EmptyListWitness ==
    /\ pc = "done"
    /\ high_quality_crops # <<>>
    /\ validated_crops = <<>>
    /\ summary # <<>>
    /\ summary[1].plants = <<>>
    /\ summary[1].average_validation_score = <<0, 1>>

(***************************************************************************)
(* The orchestrator, PlantRecognitionPipeline.process_video. A stage is    *)
(* seen from outside here: its process returns a result or raises, and how *)
(* many items it lets through is an input; which ones is the matter of the *)
(* sections above. Of a stage object this part keeps the counter behind    *)
(* the count in its stage_metrics. The calls of process_video are taken    *)
(* one at a time, on either of two pipelines.                              *)
(***************************************************************************)
MaxOrchRuns == 2

StageNames ==
    <<"detection", "tracking_filter", "intra_track_filter",
      "similarity_detection", "quality_assessment", "final_validation">>

Pipelines == {1, 2}
Videos == {"garden.mp4", "missing.mp4"}
OutputRoots == {"out"}
Seconds == 0..1
ItemCounts == 0..1
StageErrors == {"stage failed"}

VideoExists(video) == video # "missing.mp4"

\* the counters the stage objects are constructed with
NewStages ==
    [selected_crops |-> 0, unique_images |-> 0, high_quality_images |-> 0,
     validated_images |-> 0]

\* a pipeline after __init__
NewPipeline ==
    [at |-> 0, run |-> 0, current_run_id |-> None, output_dir |-> "",
     pipeline_results |-> <<>>, latest |-> <<>>, stages |-> NewStages]

RunId(timestamp) == <<"run", timestamp>>

RunDir(output_dir, run_id) == <<output_dir, run_id>>

\* the number of items in what the k-th stage receives
ItemsOf(k, received) == IF k = 1 THEN 1 ELSE received.items

\* what a call of process leaves and returns: the counters of the stage
\* objects, the size of the list returned, the count in stage_metrics, and
\* whether the call came to save_results
Returned(counters, items, count, saved) ==
    [stages |-> counters, items |-> items, count |-> count, saved |-> saved]

\* stage 3: self.selected_crops += 1 for each crop it appends
CountSelected(counters, n) ==
    Returned([counters EXCEPT !.selected_crops = @ + n], n,
             counters.selected_crops + n, TRUE)

\* stage 4: self.unique_images = len(unique_crops), past the two early
\* returns
CountUnique(counters, received, n, embedded) ==
    IF received = 0 \/ ~embedded
    THEN Returned(counters, 0, counters.unique_images, FALSE)
    ELSE Returned([counters EXCEPT !.unique_images = n], n, n, TRUE)

\* stage 5: self.high_quality_images += 1 for each crop it appends
CountHighQuality(counters, received, n) ==
    IF received = 0
    THEN Returned(counters, 0, counters.high_quality_images, FALSE)
    ELSE Returned([counters EXCEPT !.high_quality_images = @ + n], n,
                  counters.high_quality_images + n, TRUE)

\* stage 6: self.validated_images += 1 for each crop it appends
CountValidated(counters, received, n) ==
    IF received = 0
    THEN Returned(counters, 0, counters.validated_images, FALSE)
    ELSE Returned([counters EXCEPT !.validated_images = @ + n], n,
                  counters.validated_images + n, TRUE)

\* self.stages[name].process(...) of the k-th stage: n items of its input
\* come out, embedded tells whether stage 4 got an embedding at all
StageProcess(k, counters, received, n, embedded) ==
    LET call == CASE k \in {1, 2} -> Returned(counters, n, n, TRUE)
                  [] k = 3 -> CountSelected(counters, n)
                  [] k = 4 -> CountUnique(counters, ItemsOf(k, received), n,
                                          embedded)
                  [] k = 5 -> CountHighQuality(counters,
                                               ItemsOf(k, received), n)
                  [] k = 6 -> CountValidated(counters, ItemsOf(k, received),
                                             n)
    IN  [stages |-> call.stages, saved |-> call.saved,
         results |-> [stage |-> StageNames[k], items |-> call.items,
                      stage_metrics |-> [count |-> call.count]]]

\* every stage is handed the result of the first
ReceivedFromDetection(pl) ==
    IF pl.at = 1 THEN pl.pipeline_results["video_path"]
    ELSE pl.pipeline_results["stage_results"]["detection"]

\* what process_video hands the stage it is about to call
Received(pl) ==
    IF pl.at = 1 THEN pl.pipeline_results["video_path"] ELSE pl.latest

\* the except block, had it gone back to the stage that raised
HandleErrorRetrying(pl, error) ==
    [pl EXCEPT !.pipeline_results =
                   ("error" :> error) @@ ("status" :> "failed") @@ @]

\* the except block of process_video
HandleError(pl, error) ==
    [pl EXCEPT !.pipeline_results =
                   ("error" :> error) @@ ("status" :> "failed") @@ @,
               !.at = 0]

\* _calculate_pipeline_metrics, the data flow
CalculatePipelineMetrics(pipeline_results) ==
    [data_flow |-> [k \in DOMAIN StageNames |->
                       pipeline_results["stage_results"][StageNames[k]].items]]

\* _generate_pipeline_summary
GeneratePipelineSummary(pl) ==
    [run_id |-> pl.current_run_id,
     video_processed |-> pl.pipeline_results["video_path"],
     total_plants_found |->
         pl.pipeline_results["stage_results"]["final_validation"].items]

\* pipeline_results as the try block leaves it before it writes the files
Completed(pl) ==
    LET timed == ("total_processing_time" :> clock - pl.pipeline_results["start_time"])
                 @@ ("end_time" :> clock) @@ pl.pipeline_results
        measured == ("pipeline_metrics" :> CalculatePipelineMetrics(timed))
                    @@ timed
    IN  [pl EXCEPT !.pipeline_results =
                       ("summary" :>
                            GeneratePipelineSummary(
                                [pl EXCEPT !.pipeline_results = measured]))
                       @@ measured]

\* a file is written, over the file of that name if there is one
Write(files, dir, name, content) == (<<dir, name>> :> content) @@ files

InitOrchestrator ==
    /\ pc = "idle"
    /\ cfg = DefaultConfig
    /\ NoData
    /\ pipelines = [p \in Pipelines |-> NewPipeline]
    /\ clock = 0
    /\ stage_calls = <<>>
    /\ disk = <<>>
    /\ runs = <<>>
    /\ config = <<>>
    /\ stages = <<>>
    /\ updates = <<>>
    /\ dirs = <<>>
    /\ steps = <<>>
    /\ failure = <<>>

data_vars ==
    <<pc, cfg, stage1_vars, stage2_vars, stage3_vars, stage4_vars,
      stage5_vars, stage6_vars, previous_run>>

Tick ==
    /\ clock + 1 \in Seconds
    /\ clock' = clock + 1
    /\ UNCHANGED <<data_vars, pipelines, stage_calls, disk, runs,
                   config_vars, frame_vars>>

\* process_video up to the try block; the pipelines are alike, and the
\* second is taken into use after the first
ProcessVideo(p, video_path, output_dir) ==
    /\ \A q \in Pipelines : pipelines[q].at = 0
    /\ Len(runs) < MaxOrchRuns
    /\ \A q \in Pipelines : q < p => pipelines[q].run # 0
    /\ pipelines' =
           [pipelines EXCEPT ![p] =
               [@ EXCEPT !.at = 1,
                         !.run = Len(runs) + 1,
                         !.current_run_id = RunId(clock),
                         !.output_dir = output_dir,
                         !.latest = <<>>,
                         !.pipeline_results =
                             [run_id |-> RunId(clock),
                              video_path |-> video_path,
                              start_time |-> clock,
                              stage_results |-> <<>>,
                              stage_metrics |-> <<>>,
                              pipeline_metrics |-> <<>>]]]
    /\ runs' = Append(runs, [pipeline |-> p, run_id |-> RunId(clock),
                             output_dir |-> output_dir,
                             run_dir |-> RunDir(output_dir, RunId(clock)),
                             outcome |-> "running"])
    /\ stage_calls' = <<>>
    /\ UNCHANGED <<data_vars, clock, disk, config_vars, frame_vars>>

\* the next stage is called and returns
StageReturns(p, n, embedded) ==
    /\ pipelines[p].at \in DOMAIN StageNames
    /\ \E pl \in {pipelines[p]} :
       \E received \in {Received(pl)} :
           /\ pl.at = 1 => VideoExists(received)
           /\ pl.at = 1 \/ n <= ItemsOf(pl.at, received)
           /\ embedded \/ pl.at = 4
           /\ \E call \in {StageProcess(pl.at, pl.stages, received, n,
                                        embedded)} :
                  /\ pipelines' =
                         [pipelines EXCEPT ![p] =
                             [pl EXCEPT
                                 !.at = @ + 1,
                                 !.latest = call.results,
                                 !.stages = call.stages,
                                 !.pipeline_results =
                                     ("stage_results" :>
                                          ((StageNames[pl.at] :> call.results)
                                           @@ @["stage_results"]))
                                     @@ ("stage_metrics" :>
                                          ((StageNames[pl.at] :>
                                                call.results.stage_metrics)
                                           @@ @["stage_metrics"]))
                                     @@ @]]
                  /\ stage_calls' =
                         Append(stage_calls,
                                [stage |-> StageNames[pl.at],
                                 received |-> received,
                                 outcome |-> "returned",
                                 results |-> call.results])
                  /\ disk' =
                         IF call.saved
                         THEN Write(disk,
                                    RunDir(pl.output_dir, pl.current_run_id),
                                    StageNames[pl.at], call.results)
                         ELSE disk
    /\ UNCHANGED <<data_vars, clock, runs, config_vars, frame_vars>>

\* the next stage is called and raises
StageRaises(p, error) ==
    /\ pipelines[p].at \in DOMAIN StageNames
    /\ \E pl \in {pipelines[p]} :
       \E after \in {HandleError(pl, error)} :
           /\ pipelines' = [pipelines EXCEPT ![p] = after]
           /\ stage_calls' =
                  Append(stage_calls,
                         [stage |-> StageNames[pl.at],
                          received |-> Received(pl), outcome |-> "raised",
                          results |-> <<>>])
           /\ runs' = [runs EXCEPT ![pl.run].outcome = "raised"]
    /\ UNCHANGED <<data_vars, clock, disk, config_vars, frame_vars>>

\* the six stages have returned: the metrics, the summary, the two files,
\* and the return
Complete(p) ==
    /\ pipelines[p].at = Len(StageNames) + 1
    /\ \E pl \in {Completed(pipelines[p])} :
           /\ pipelines' = [pipelines EXCEPT ![p] = [pl EXCEPT !.at = 0]]
           /\ disk' =
                  Write(Write(disk,
                              RunDir(pl.output_dir, pl.current_run_id),
                              "complete_pipeline_results",
                              pl.pipeline_results),
                        RunDir(pl.output_dir, pl.current_run_id),
                        "plant_detection_summary",
                        pl.pipeline_results["summary"])
           /\ runs' = [runs EXCEPT ![pl.run].outcome = "returned"]
    /\ UNCHANGED <<data_vars, clock, stage_calls, config_vars, frame_vars>>

\* the six stages have returned and the results file cannot be written
CompleteRaises(p, error) ==
    /\ pipelines[p].at = Len(StageNames) + 1
    /\ \E pl \in {HandleError(Completed(pipelines[p]), error)} :
           /\ pipelines' = [pipelines EXCEPT ![p] = pl]
           /\ runs' = [runs EXCEPT ![pl.run].outcome = "raised"]
    /\ UNCHANGED <<data_vars, clock, stage_calls, disk, config_vars,
                   frame_vars>>

NextOrchestrator ==
    \/ Tick
    \/ \E p \in Pipelines, video \in Videos, root \in OutputRoots :
           ProcessVideo(p, video, root)
    \/ \E p \in Pipelines, n \in ItemCounts, embedded \in BOOLEAN :
           StageReturns(p, n, embedded)
    \/ \E p \in Pipelines, error \in StageErrors : StageRaises(p, error)
    \/ \E p \in Pipelines : Complete(p)
    \/ \E p \in Pipelines, error \in StageErrors : CompleteRaises(p, error)

SpecOrchestrator == InitOrchestrator /\ [][NextOrchestrator]_vars

\* the latest call of process_video and the pipeline it was made on
LatestRun == runs[Len(runs)]
LatestPipeline == pipelines[LatestRun.pipeline]

\* C22: the stages of a run are called in the order detection,
\* tracking_filter, intra_track_filter, similarity_detection,
\* quality_assessment, final_validation, each after the one before it has
\* returned and with exactly the result that one returned (the first with
\* the video path); the pipeline_results of a run that returned hold, for
\* each of the six stages, a stage_results entry with stage_metrics, and
\* pipeline_metrics, total_processing_time and summary
C22_StagesInOrderEachGivenThePrevious ==
    runs # <<>> =>
        /\ \A k \in DOMAIN stage_calls :
               /\ k <= Len(StageNames)
               /\ stage_calls[k].stage = StageNames[k]
               /\ k = 1 => stage_calls[k].received =
                               LatestPipeline.pipeline_results["video_path"]
               /\ k > 1 => /\ stage_calls[k - 1].outcome = "returned"
                           /\ stage_calls[k].received =
                                  stage_calls[k - 1].results
        /\ LatestRun.outcome = "returned" =>
               LET results == LatestPipeline.pipeline_results
               IN  /\ Len(stage_calls) = Len(StageNames)
                   /\ \A k \in DOMAIN StageNames :
                          /\ StageNames[k] \in DOMAIN results["stage_results"]
                          /\ results["stage_results"][StageNames[k]] =
                                 stage_calls[k].results
                          /\ "stage_metrics" \in
                                 DOMAIN results["stage_results"][StageNames[k]]
                   /\ {"total_processing_time", "summary"}
                          \subseteq DOMAIN results
                   /\ results["pipeline_metrics"] # <<>>
                   /\ results["summary"].run_id = LatestRun.run_id

\* a run on a video in which nothing was detected has returned
C22_Witness ==
    /\ runs # <<>>
    /\ LatestRun.outcome = "returned"
    /\ Len(stage_calls) = 6
    /\ LatestPipeline.pipeline_results["stage_results"]["detection"].items = 0
    /\ "summary" \in DOMAIN LatestPipeline.pipeline_results

\* a run in which every stage let an item through has returned
C22_FullRunWitness ==
    /\ runs # <<>>
    /\ LatestRun.outcome = "returned"
    /\ \A k \in DOMAIN stage_calls : stage_calls[k].results.items = 1

\* C23: when a stage raises in process_video, no stage is called after it,
\* the run's results are marked failed and hold the error, the exception
\* reaches the caller, and no stage is called twice in the run
C23_FailedStageEndsTheRun ==
    /\ \A j, k \in DOMAIN stage_calls :
           j # k => stage_calls[j].stage # stage_calls[k].stage
    /\ \A k \in DOMAIN stage_calls :
           stage_calls[k].outcome = "raised" =>
               /\ k = Len(stage_calls)
               /\ LatestRun.outcome = "raised"
               /\ LatestPipeline.at = 0
               /\ {"status", "error"}
                      \subseteq DOMAIN LatestPipeline.pipeline_results
               /\ LatestPipeline.pipeline_results["status"] = "failed"
               /\ LatestPipeline.pipeline_results["error"] \in StageErrors

\* the fourth stage of a run raised after three had returned
C23_Witness ==
    /\ Len(stage_calls) = 4
    /\ stage_calls[4].outcome = "raised"
    /\ LatestRun.outcome = "raised"
    /\ DOMAIN LatestPipeline.pipeline_results["stage_results"] =
           {"detection", "tracking_filter", "intra_track_filter"}

\* the files of the run directory that hold the results of a failed run
FailureRecords(run, results) ==
    {f \in DOMAIN disk :
        /\ f[1] = run.run_dir
        /\ {"status", "run_id", "video_path", "stage_results",
            "stage_metrics"} \subseteq DOMAIN disk[f]
        /\ disk[f]["status"] = "failed"
        /\ disk[f]["run_id"] = run.run_id
        /\ disk[f]["video_path"] = results["video_path"]
        /\ disk[f]["stage_results"] = results["stage_results"]
        /\ disk[f]["stage_metrics"] = results["stage_metrics"]}

\* C24: when a stage has raised in process_video and the error has reached
\* the caller, a file of the run directory holds the partial results of
\* the run: the run id, the video, the results and metrics of the stages
\* that returned, and the failed status
C24_PartialResultsPersisted ==
    (/\ runs # <<>>
     /\ LatestRun.outcome = "raised"
     /\ stage_calls # <<>>
     /\ stage_calls[Len(stage_calls)].outcome = "raised") =>
        FailureRecords(LatestRun, LatestPipeline.pipeline_results) # {}

\* C24, the run that returns: its results are in a file of its directory
C24_CompleteResultsPersisted ==
    (runs # <<>> /\ LatestRun.outcome = "returned") =>
        /\ <<LatestRun.run_dir, "complete_pipeline_results">> \in DOMAIN disk
        /\ disk[<<LatestRun.run_dir, "complete_pipeline_results">>] =
               LatestPipeline.pipeline_results

\* C25: any two runs, on one pipeline or on two, have distinct run
\* identifiers, and distinct run directories under one output root
C25_RunIdentifiersDistinct ==
    \A r1, r2 \in DOMAIN runs :
        r1 # r2 =>
            /\ runs[r1].run_id # runs[r2].run_id
            /\ runs[r1].output_dir = runs[r2].output_dir =>
                   runs[r1].run_dir # runs[r2].run_dir

\* the calls of process_video made on a pipeline so far
RunsOn(p) == {r \in DOMAIN runs : runs[r].pipeline = p}

CountedStages ==
    {"intra_track_filter", "similarity_detection", "quality_assessment",
     "final_validation"}

\* C29: the count a call of process reports in stage_metrics
\* (selected_crops, unique_images, high_quality_images, validated_images)
\* is the size of the list the call returns, on every call on the stage
\* object
C29_ReportedCountIsOutputSize ==
    \A k \in DOMAIN stage_calls :
        (/\ stage_calls[k].outcome = "returned"
         /\ stage_calls[k].stage \in CountedStages) =>
            stage_calls[k].results.stage_metrics.count =
                stage_calls[k].results.items

\* C29, the first run of a pipeline: each count is the size of the output
C29_FirstRunCountsItsOutput ==
    (runs # <<>> /\ Cardinality(RunsOn(LatestRun.pipeline)) = 1) =>
        C29_ReportedCountIsOutputSize

(***************************************************************************)
(* The gate run twice on the same frame records, the second time with the  *)
(* records supplied in another order.                                      *)
(***************************************************************************)
MaxOrderDet == 3

OrderBoxes == {BoxA, BoxB, BoxC}

\* the default thresholds, and a gate that wants a steadier box
OrderConfigs ==
    {DefaultConfig, [DefaultConfig EXCEPT !.min_bbox_consistency = <<9, 10>>]}

SupplyOrders(n) ==
    {f \in [1..n -> 1..n] : \A i, j \in 1..n : f[i] = f[j] => i = j}

RECURSIVE PermuteFrom(_, _, _)
PermuteFrom(records, order, i) ==
    IF i > Len(records) THEN <<>>
    ELSE <<records[order[i]]>> \o PermuteFrom(records, order, i + 1)

\* the records in the given order
Permute(records, order) == PermuteFrom(records, order, 1)

\* what is kept of a run of the gate
GateSnapshot ==
    [detections |-> detections, track_stats |-> track_stats,
     valid_tracks |-> valid_tracks, filtered_crops |-> filtered_crops]

InitOrder ==
    /\ pc = "detection"
    /\ cfg \in OrderConfigs
    /\ Empty

DetectForOrder ==
    /\ previous_run = <<>>
    /\ \E b \in OrderBoxes : DetectObject(MaxOrderDet, 30, 1, 90, b, GoodImage)

\* the frame records of the run are handed to the gate again, in another
\* order
Resupply(order) ==
    /\ pc = "intra_track_filter"
    /\ previous_run = <<>>
    /\ previous_run' = <<GateSnapshot>>
    /\ detections' = Permute(detections, order)
    /\ track_stats' = <<>>
    /\ valid_tracks' = {}
    /\ filtered_crops' = <<>>
    /\ pc' = "detection"
    /\ UNCHANGED <<cfg, cropped_images, stage3_vars, stage4_vars, stage5_vars,
                   stage6_vars, orchestrator_vars, config_vars, frame_vars>>

NextOrder ==
    \/ DetectForOrder
    \/ GateProcess
    \/ \E order \in SupplyOrders(Len(detections)) : Resupply(order)

SpecOrder == InitOrder /\ [][NextOrder]_vars

GatedAgain == previous_run # <<>> /\ pc = "intra_track_filter"

\* C26: the statistics of every track and the set of admitted tracks are
\* the same for every order in which the frame records are supplied
C26_GateIndependentOfInputOrder ==
    GatedAgain =>
        /\ track_stats = previous_run[1].track_stats
        /\ valid_tracks = previous_run[1].valid_tracks

\* C26, the statistics that do not look at neighbours in the list: the
\* count, the duration, the confidence mean and deviation and the first
\* and last frame are the same for every order
C26_UnorderedStatisticsIndependent ==
    GatedAgain =>
        /\ DOMAIN track_stats = DOMAIN previous_run[1].track_stats
        /\ \A t \in DOMAIN track_stats :
               [track_stats[t] EXCEPT !.bbox_consistency = <<1, 1>>] =
                   [previous_run[1].track_stats[t]
                       EXCEPT !.bbox_consistency = <<1, 1>>]

\* a track admitted when its records come in frame order is rejected when
\* they come in another order
C26_AdmittedSetChanges ==
    /\ GatedAgain
    /\ \A i, j \in DOMAIN previous_run[1].detections :
           i < j => previous_run[1].detections[i].frame
                        < previous_run[1].detections[j].frame
    /\ 1 \in previous_run[1].valid_tracks
    /\ 1 \notin valid_tracks

(***************************************************************************)
(* The configuration of a pipeline: Config._config, a dictionary of        *)
(* sections, each a dictionary of settings; get_configuration and          *)
(* update_configuration.                                                   *)
(***************************************************************************)
MaxUpdates == 3

\* the configuration file of the pipeline
LoadedConfig ==
    [yolo |-> [model_path |-> "plants.pt", confidence_threshold |-> 30,
               device |-> "cpu"],
     validation |-> [min_validation_score |-> 60]]

NewConfigs ==
    {[yolo |-> [confidence_threshold |-> 50]],
     [yolo |-> [model_path |-> "broken.pt"]],
     [yolo |-> [model_path |-> "trees.pt", confidence_threshold |-> 50,
                device |-> "cuda"]],
     [validation |-> [min_validation_score |-> 70]],
     [yolo |-> [device |-> "cuda"],
      validation |-> [min_validation_score |-> 70]]}

\* YOLO(model_path) raises for a file that is no model
ModelLoads(model_path) == model_path # "broken.pt"

\* dict.get(key, default)
Get(dict, key, default) == IF key \in DOMAIN dict THEN dict[key] ELSE default

\* _initialize_stages: the settings the stage objects take from the
\* configuration, or the failure of a constructor
InitializeStages(config_dict) ==
    LET yolo_config == Get(config_dict, "yolo", <<>>)
        validation_config == Get(config_dict, "validation", <<>>)
        model_path == Get(yolo_config, "model_path", "yolov8x-oiv7.pt")
    IN  IF ~ModelLoads(model_path) THEN [raised |-> TRUE, stages |-> <<>>]
        ELSE [raised |-> FALSE,
              stages |->
                  [model_path |-> model_path,
                   confidence_threshold |->
                       Get(yolo_config, "confidence_threshold", 30),
                   device |-> Get(yolo_config, "device", "auto"),
                   min_validation_score |->
                       Get(validation_config, "min_validation_score", 40)]]

\* self.config._config.update(new_config)
Update(dict, new_config) == new_config @@ dict

\* an except block that leaves the configuration as the update made it
KeepUpdated(old_config, updated) == updated

\* the except block of update_configuration: self.config._config = old_config
Restore(old_config, updated) == old_config

\* get_configuration
GetConfiguration == config

InitConfig ==
    /\ pc = "idle"
    /\ cfg = DefaultConfig
    /\ NoData
    /\ pipelines = <<>>
    /\ clock = 0
    /\ stage_calls = <<>>
    /\ disk = <<>>
    /\ runs = <<>>
    /\ config = LoadedConfig
    /\ stages = InitializeStages(LoadedConfig).stages
    /\ updates = <<>>
    /\ dirs = <<>>
    /\ steps = <<>>
    /\ failure = <<>>

UpdateConfiguration(new_config) ==
    /\ Len(updates) < MaxUpdates
    /\ \E old_config \in {config} :
       \E updated \in {Update(config, new_config)} :
       \E built \in {InitializeStages(updated)} :
           /\ config' = IF built.raised THEN Restore(old_config, updated)
                        ELSE updated
           /\ stages' = IF built.raised THEN stages ELSE built.stages
           /\ updates' = Append(updates,
                                [new_config |-> new_config,
                                 old_config |-> old_config,
                                 old_stages |-> stages,
                                 outcome |-> IF built.raised THEN "raised"
                                             ELSE "returned"])
    /\ UNCHANGED <<data_vars, orchestrator_vars, frame_vars>>

NextConfig == \E new_config \in NewConfigs : UpdateConfiguration(new_config)

SpecConfig == InitConfig /\ [][NextConfig]_vars

LatestUpdate == updates[Len(updates)]

\* the settings a configuration holds, as pairs of section and key
Settings(dict) ==
    UNION {{<<section, key>> : key \in DOMAIN dict[section]} :
              section \in DOMAIN dict}

\* C27: when update_configuration(new_config) has returned,
\* get_configuration() has the value of new_config for every setting of
\* new_config and the stages are those built from the updated
\* configuration; when it has raised because the stages could not be
\* built, the configuration and the stages are what they were before
C27_UpdateTakesEffectOrIsUndone ==
    updates # <<>> =>
        /\ LatestUpdate.outcome = "returned" =>
               /\ \A setting \in Settings(LatestUpdate.new_config) :
                      /\ setting \in Settings(GetConfiguration)
                      /\ GetConfiguration[setting[1]][setting[2]] =
                             LatestUpdate.new_config[setting[1]][setting[2]]
               /\ ~InitializeStages(config).raised
               /\ stages = InitializeStages(config).stages
               /\ \A setting \in Settings(LatestUpdate.new_config) :
                      setting[2] \in DOMAIN stages =>
                          stages[setting[2]] =
                              LatestUpdate.new_config[setting[1]][setting[2]]
        /\ LatestUpdate.outcome = "raised" =>
               /\ GetConfiguration = LatestUpdate.old_config
               /\ stages = LatestUpdate.old_stages
               /\ InitializeStages(Update(LatestUpdate.old_config,
                                          LatestUpdate.new_config)).raised

\* an update to a model that does not load is undone after an update that
\* took effect
C27_Witness ==
    /\ Len(updates) = 2
    /\ updates[1].outcome = "returned"
    /\ updates[1].new_config = [validation |-> [min_validation_score |-> 70]]
    /\ updates[2].outcome = "raised"
    /\ config = [LoadedConfig EXCEPT !.validation.min_validation_score = 70]
    /\ stages.min_validation_score = 70
    /\ stages.model_path = "plants.pt"

\* C30: update_configuration(new_config) leaves every setting that
\* new_config does not name as it was, the other settings of a section
\* that new_config names in part included
C30_UnnamedSettingsUnchanged ==
    (updates # <<>> /\ LatestUpdate.outcome = "returned") =>
        \A setting \in Settings(LatestUpdate.old_config)
                           \ Settings(LatestUpdate.new_config) :
            /\ setting \in Settings(config)
            /\ config[setting[1]][setting[2]] =
                   LatestUpdate.old_config[setting[1]][setting[2]]

\* C30, the sections new_config does not name are as they were
C30_UnnamedSectionsUnchanged ==
    (updates # <<>> /\ LatestUpdate.outcome = "returned") =>
        \A section \in DOMAIN LatestUpdate.old_config
                           \ DOMAIN LatestUpdate.new_config :
            /\ section \in DOMAIN config
            /\ config[section] = LatestUpdate.old_config[section]

(***************************************************************************)
(* The frame-based pipeline of main.py, process_video_pipeline: blur       *)
(* detection, plant detection, similarity deduplication, judge analysis.   *)
(* The output directory may be new or may hold the files of an earlier     *)
(* run: every directory is made with exist_ok=True.                        *)
(***************************************************************************)
MaxFrames == 2

StepNames ==
    <<"blur_detection", "plant_detection", "similarity_analysis",
      "qwen_analysis">>

\* the input video: whether the file is there, has a supported suffix,
\* can be opened by cv2.VideoCapture, and how many frames it has
FrameVideos ==
    [exists : BOOLEAN, supported : {TRUE}, opens : BOOLEAN,
     frames : 0..MaxFrames]
        \cup {[exists |-> TRUE, supported |-> FALSE, opens |-> TRUE,
               frames |-> 1]}

LeftOver == 0..1

\* the files process_video_pipeline finds: the video, and what an earlier
\* run left in the output directory
OutputDirectory(video, sharp, plants) ==
    [video |-> video, sharp_frames |-> sharp, plant_frames |-> plants,
     statistics |-> FALSE, final_frames |-> FALSE, summary |-> FALSE]

NoSharpFrames == "No sharp frames found after blur detection"

Step(name, yielded) == [step |-> name, yielded |-> yielded]

InitFrames ==
    /\ pc = "validate_inputs"
    /\ cfg = DefaultConfig
    /\ NoData
    /\ pipelines = <<>>
    /\ clock = 0
    /\ stage_calls = <<>>
    /\ disk = <<>>
    /\ runs = <<>>
    /\ config = <<>>
    /\ stages = <<>>
    /\ updates = <<>>
    /\ \E video \in FrameVideos, sharp \in LeftOver, plants \in LeftOver :
           /\ plants <= sharp
           /\ dirs = OutputDirectory(video, sharp, plants)
    /\ steps = <<>>
    /\ failure = <<>>

frame_frame ==
    <<cfg, stage1_vars, stage2_vars, stage3_vars, stage4_vars, stage5_vars,
      stage6_vars, previous_run, orchestrator_vars, config_vars>>

\* the exception leaves process_video_pipeline
Fails(message) ==
    /\ failure' = <<message>>
    /\ pc' = "failed"

\* validate_inputs
ValidateInputs ==
    /\ pc = "validate_inputs"
    /\ IF ~dirs.video.exists THEN Fails("Video file not found")
       ELSE IF ~dirs.video.supported THEN Fails("Unsupported video format")
       ELSE pc' = "blur_detection" /\ UNCHANGED failure
    /\ UNCHANGED <<frame_frame, dirs, steps>>

\* step 1 and the check after it: process_video_blur_detection writes the
\* frames it finds sharp next to what the directory holds; a video that
\* does not open makes it return at once, a video without a frame makes it
\* divide by zero
BlurDetection(sharp) ==
    /\ pc = "blur_detection"
    /\ sharp <= dirs.video.frames
    /\ dirs.video.opens \/ sharp = 0
    /\ steps' = Append(steps, Step("blur_detection", sharp))
    /\ dirs' = [dirs EXCEPT !.sharp_frames = @ + sharp]
    /\ IF dirs.video.opens /\ dirs.video.frames = 0
       THEN Fails("division by zero")
       ELSE IF dirs'.sharp_frames = 0 THEN Fails(NoSharpFrames)
       ELSE pc' = "plant_detection" /\ UNCHANGED failure
    /\ UNCHANGED frame_frame

\* step 2 and the check after it: process_plant_detection returns early
\* without its classes or its model, and else writes the frames with
\* plants, a frame found again over its file, and its statistics file
PlantDetection(ready, found) ==
    /\ pc = "plant_detection"
    /\ found <= dirs.sharp_frames
    /\ ready \/ found = 0
    /\ steps' = Append(steps, Step("plant_detection", found))
    /\ dirs' = [dirs EXCEPT !.plant_frames = Max(@, found),
                            !.statistics = @ \/ ready]
    /\ IF dirs'.plant_frames = 0 /\ ~dirs'.statistics
       THEN Fails("No frames with plants found after plant detection")
       ELSE pc' = "similarity_analysis" /\ UNCHANGED failure
    /\ UNCHANGED frame_frame

\* step 3 and the check after it
SimilarityAnalysis(returned) ==
    /\ pc = "similarity_analysis"
    /\ steps' = Append(steps, Step("similarity_analysis",
                                   IF returned THEN 1 ELSE 0))
    /\ dirs' = [dirs EXCEPT !.final_frames = returned]
    /\ IF ~returned THEN Fails("Similarity analysis failed")
       ELSE pc' = "qwen_analysis" /\ UNCHANGED failure
    /\ UNCHANGED frame_frame

\* step 4 and the summary file
QwenJudge(raises) ==
    /\ pc = "qwen_analysis"
    /\ steps' = Append(steps, Step("qwen_analysis", IF raises THEN 0 ELSE 1))
    /\ IF raises THEN Fails("judge failed") /\ UNCHANGED dirs
       ELSE /\ pc' = "done"
            /\ dirs' = [dirs EXCEPT !.summary = TRUE]
            /\ UNCHANGED failure
    /\ UNCHANGED frame_frame

NextFrames ==
    \/ ValidateInputs
    \/ \E sharp \in 0..MaxFrames : BlurDetection(sharp)
    \/ \E ready \in BOOLEAN, found \in 0..(MaxFrames + 1) :
           PlantDetection(ready, found)
    \/ \E returned \in BOOLEAN : SimilarityAnalysis(returned)
    \/ \E raises \in BOOLEAN : QwenJudge(raises)

SpecFrames == InitFrames /\ [][NextFrames]_vars

BlurDetectionYieldedNothing ==
    /\ steps # <<>>
    /\ steps[1].yielded = 0

\* C28: the steps of process_video_pipeline run in the order blur
\* detection, plant detection, similarity deduplication, judge analysis;
\* when blur detection has yielded no sharp frame the run fails with a
\* failure that says so, and no later step is executed
C28_NoSharpFrameAbortsTheRun ==
    /\ \A k \in DOMAIN steps : k <= Len(StepNames)
                               /\ steps[k].step = StepNames[k]
    /\ (BlurDetectionYieldedNothing /\ dirs.video.frames > 0
           /\ dirs.video.opens) =>
           /\ pc = "failed"
           /\ failure = <<NoSharpFrames>>
           /\ Len(steps) = 1

\* C28, the order of the steps alone
C28_StepsInOrder ==
    \A k \in DOMAIN steps : k <= Len(StepNames)
                            /\ steps[k].step = StepNames[k]

\* C28, in an output directory with no sharp frame of an earlier run
C28_AbortsWhereNoFrameIsLeftOver ==
    (BlurDetectionYieldedNothing /\ dirs.sharp_frames = 0) =>
        /\ pc = "failed"
        /\ failure \in {<<NoSharpFrames>>, <<"division by zero">>}
        /\ Len(steps) = 1

\* all the frames of a video are blurred, the run is in a directory that
\* held nothing, and it was aborted
C28_FreshDirectoryWitness ==
    /\ BlurDetectionYieldedNothing
    /\ dirs.video.opens
    /\ dirs.video.frames = 2
    /\ dirs.sharp_frames = 0
    /\ failure = <<NoSharpFrames>>

====
